---- MODULE Spec2Model ----
(***************************************************************************)
(* Model of the orders/create webhook of the loyalty-points app            *)
(* (src/unnamed/part_000, lines 1061-1138) and of the two tables it        *)
(* touches: the marker rows it inserts into "_prisma_migrations" and the   *)
(* LoyaltyPoints ledger (migration.sql, lines 46-56).                      *)
(*                                                                         *)
(* Every await on the data store is one step of an invocation, so          *)
(* invocations interleave exactly at the store statements.  Any store      *)
(* statement may throw; the throw is caught by the action's catch block.   *)
(* The updatedAt column is not modelled: nothing reads it.                 *)
(*                                                                         *)
(* Further parts, each with a specification of its own: the manual point   *)
(* adjustment (app.loyalty.tsx, SpecLedger), the bulk inventory action     *)
(* (app.inventory.tsx, SpecInventory), and the inventory screen in         *)
(* part_000.  The three specifications of the screen run all of its        *)
(* handlers and differ in their inputs: catalogs of several sizes          *)
(* (SpecPages), every quantity field (SpecToast), every search value and   *)
(* a longer clock (SpecDebounce).                                          *)
(***************************************************************************)
EXTENDS Integers, Sequences, FiniteSets, Bags, TLC

\* ------------------------------------------------------------------ bounds
NumInvocations == 2

Invocations == 1..NumInvocations

\* concurrent submissions of the manual point-adjustment form
NumAdjustments == 1

Adjustments == 1..NumAdjustments

\* ------------------------------------------------------------ input values
Undefined == "undefined"

\* largest value of the "points" INTEGER column (a 32-bit PostgreSQL integer)
MaxInt32 == 2147483647

\* JavaScript numbers as the actions meet them: NaN, an integer of the
\* column's range, or a number beyond it (+Infinity or a finite number above
\* MaxInt32 with beyond = 1, -Infinity or one below -MaxInt32 with beyond = -1;
\* val then holds the nearest bound, so that comparisons with 0 read val)
NaN == [nan |-> TRUE, beyond |-> 0, val |-> 0]
Num(v) == [nan |-> FALSE, beyond |-> 0, val |-> v]
Beyond(sign) == [nan |-> FALSE, beyond |-> sign, val |-> sign * MaxInt32]

Topics == {"orders/create", "orders/updated"}

OrderIds == {1, 2}

\* order.customer: absent, present without an id, or present with an id
NoCustomer == [present |-> FALSE, id |-> Undefined]
CustomerNoId == [present |-> TRUE, id |-> Undefined]
CustomerIds == {"c1", "c2"}
Customers == {NoCustomer, CustomerNoId} \cup {[present |-> TRUE, id |-> c] : c \in CustomerIds}

\* order.subtotal_price: a string (sequence of characters) or absent
Str(chars) == [defined |-> TRUE, chars |-> chars]
NoSubtotal == [defined |-> FALSE, chars |-> <<>>]

\* subtotals of the concurrent specifications: one below and one at the
\* threshold (SpecOne delivers the wide set, non-numeric strings included)
Subtotals == { Str(<<"9", ".", "9", "9">>),
               Str(<<"1", "0", ".", "0", "0">>) }

\* request body: an order object, or a body request.json() cannot parse
Unparseable == [parseable |-> FALSE, raw |-> "not JSON"]
Orders == [parseable : {TRUE}, id : OrderIds, customer : Customers,
           subtotal_price : Subtotals]
Bodies == Orders \cup {Unparseable}

\* ------------------------------------------------- parseFloat / Math.floor
DigitVal == [c \in {"0", "1", "2", "3", "4", "5", "6", "7", "8", "9"} |->
               CASE c = "0" -> 0 [] c = "1" -> 1 [] c = "2" -> 2 [] c = "3" -> 3
                 [] c = "4" -> 4 [] c = "5" -> 5 [] c = "6" -> 6 [] c = "7" -> 7
                 [] c = "8" -> 8 [] c = "9" -> 9]

IsDigit(c) == c \in DOMAIN DigitVal

\* first index >= i of s that does not hold a digit (Len(s)+1 if none)
ScanDigits(s, i) ==
  CHOOSE k \in i..(Len(s) + 1) :
    /\ k = Len(s) + 1 \/ ~IsDigit(s[k])
    /\ \A m \in i..(k - 1) : IsDigit(s[m])

\* StrWhiteSpaceChar: the white space and the line terminators of JavaScript.
\* The vertical tab, the no-break space, the ogham space mark and the byte
\* order mark are written as themselves and as their code points; a character
\* that a string of this module cannot hold is written as its code point only.
WhiteSpace ==
  { " ", "\t", "\n", "\r", "\f", "", " ", " ", "﻿", "U+0009", "U+000A", "U+000B", "U+000C",
    "U+000D", "U+0020", "U+00A0", "U+1680", "U+2000", "U+2001", "U+2002",
    "U+2003", "U+2004", "U+2005", "U+2006", "U+2007", "U+2008", "U+2009",
    "U+200A", "U+2028", "U+2029", "U+202F", "U+205F", "U+3000", "U+FEFF" }

\* first index >= i of s that does not hold a StrWhiteSpaceChar, which
\* parseFloat and parseInt skip at the start (Len(s)+1 if none)
SkipWhiteSpace(s, i) ==
  CHOOSE k \in i..(Len(s) + 1) :
    /\ k = Len(s) + 1 \/ s[k] \notin WhiteSpace
    /\ \A m \in i..(k - 1) : s[m] \in WhiteSpace

\* a value above MaxInt32
Overflow == 0 - 1

\* number of "0" that s holds from index i on, before its first other
\* character
LeadingZeros(s, i) ==
  CHOOSE n \in 0..(Len(s) + 1 - i) :
    /\ i + n = Len(s) + 1 \/ s[i + n] # "0"
    /\ \A m \in i..(i + n - 1) : s[m] = "0"

\* value of the digits s[i..j-1], most significant first, added to 10^(j-i)
\* times acc; Overflow when it is above MaxInt32
RECURSIVE DigitsValue(_, _, _, _)
DigitsValue(s, i, j, acc) ==
  IF i >= j THEN acc
  ELSE IF acc > (MaxInt32 - DigitVal[s[i]]) \div 10 THEN Overflow
  ELSE DigitsValue(s, i + 1, j, 10 * acc + DigitVal[s[i]])

InfinityChars == <<"I", "n", "f", "i", "n", "i", "t", "y">>

\* The doubles from 2^e up to 2^(e+1) lie 2^(e-52) apart.  For e = -1, 0, ...,
\* 34 in turn: 2^e as its tens and its unit digit (2^-1 counts as 0), and
\* the decimal digits of half that distance, 2^(e-53), after the decimal
\* point.
Binades ==
  <<
     [tens |-> 0, unit |-> 0,
      half |-> << 0, 0, 0, 0, 0, 0, 0, 0, 0, 0, 0, 0, 0, 0, 0, 0, 5, 5, 5, 1, 1, 1, 5, 1, 2, 3, 1,
                  2, 5, 7, 8, 2, 7, 0, 2, 1, 1, 8, 1, 5, 8, 3, 4, 0, 4, 5, 4, 1, 0, 1, 5, 6, 2, 5 >>],
     [tens |-> 0, unit |-> 1,
      half |-> << 0, 0, 0, 0, 0, 0, 0, 0, 0, 0, 0, 0, 0, 0, 0, 1, 1, 1, 0, 2, 2, 3, 0, 2, 4, 6, 2,
                  5, 1, 5, 6, 5, 4, 0, 4, 2, 3, 6, 3, 1, 6, 6, 8, 0, 9, 0, 8, 2, 0, 3, 1, 2, 5 >>],
     [tens |-> 0, unit |-> 2,
      half |-> << 0, 0, 0, 0, 0, 0, 0, 0, 0, 0, 0, 0, 0, 0, 0, 2, 2, 2, 0, 4, 4, 6, 0, 4, 9, 2, 5,
                  0, 3, 1, 3, 0, 8, 0, 8, 4, 7, 2, 6, 3, 3, 3, 6, 1, 8, 1, 6, 4, 0, 6, 2, 5 >>],
     [tens |-> 0, unit |-> 4,
      half |-> << 0, 0, 0, 0, 0, 0, 0, 0, 0, 0, 0, 0, 0, 0, 0, 4, 4, 4, 0, 8, 9, 2, 0, 9, 8, 5, 0,
                  0, 6, 2, 6, 1, 6, 1, 6, 9, 4, 5, 2, 6, 6, 7, 2, 3, 6, 3, 2, 8, 1, 2, 5 >>],
     [tens |-> 0, unit |-> 8,
      half |-> << 0, 0, 0, 0, 0, 0, 0, 0, 0, 0, 0, 0, 0, 0, 0, 8, 8, 8, 1, 7, 8, 4, 1, 9, 7, 0, 0,
                  1, 2, 5, 2, 3, 2, 3, 3, 8, 9, 0, 5, 3, 3, 4, 4, 7, 2, 6, 5, 6, 2, 5 >>],
     [tens |-> 1, unit |-> 6,
      half |-> << 0, 0, 0, 0, 0, 0, 0, 0, 0, 0, 0, 0, 0, 0, 1, 7, 7, 6, 3, 5, 6, 8, 3, 9, 4, 0, 0,
                  2, 5, 0, 4, 6, 4, 6, 7, 7, 8, 1, 0, 6, 6, 8, 9, 4, 5, 3, 1, 2, 5 >>],
     [tens |-> 3, unit |-> 2,
      half |-> << 0, 0, 0, 0, 0, 0, 0, 0, 0, 0, 0, 0, 0, 0, 3, 5, 5, 2, 7, 1, 3, 6, 7, 8, 8, 0, 0,
                  5, 0, 0, 9, 2, 9, 3, 5, 5, 6, 2, 1, 3, 3, 7, 8, 9, 0, 6, 2, 5 >>],
     [tens |-> 6, unit |-> 4,
      half |-> << 0, 0, 0, 0, 0, 0, 0, 0, 0, 0, 0, 0, 0, 0, 7, 1, 0, 5, 4, 2, 7, 3, 5, 7, 6, 0, 1,
                  0, 0, 1, 8, 5, 8, 7, 1, 1, 2, 4, 2, 6, 7, 5, 7, 8, 1, 2, 5 >>],
     [tens |-> 12, unit |-> 8,
      half |-> << 0, 0, 0, 0, 0, 0, 0, 0, 0, 0, 0, 0, 0, 1, 4, 2, 1, 0, 8, 5, 4, 7, 1, 5, 2, 0, 2,
                  0, 0, 3, 7, 1, 7, 4, 2, 2, 4, 8, 5, 3, 5, 1, 5, 6, 2, 5 >>],
     [tens |-> 25, unit |-> 6,
      half |-> << 0, 0, 0, 0, 0, 0, 0, 0, 0, 0, 0, 0, 0, 2, 8, 4, 2, 1, 7, 0, 9, 4, 3, 0, 4, 0, 4,
                  0, 0, 7, 4, 3, 4, 8, 4, 4, 9, 7, 0, 7, 0, 3, 1, 2, 5 >>],
     [tens |-> 51, unit |-> 2,
      half |-> << 0, 0, 0, 0, 0, 0, 0, 0, 0, 0, 0, 0, 0, 5, 6, 8, 4, 3, 4, 1, 8, 8, 6, 0, 8, 0, 8,
                  0, 1, 4, 8, 6, 9, 6, 8, 9, 9, 4, 1, 4, 0, 6, 2, 5 >>],
     [tens |-> 102, unit |-> 4,
      half |-> << 0, 0, 0, 0, 0, 0, 0, 0, 0, 0, 0, 0, 1, 1, 3, 6, 8, 6, 8, 3, 7, 7, 2, 1, 6, 1, 6,
                  0, 2, 9, 7, 3, 9, 3, 7, 9, 8, 8, 2, 8, 1, 2, 5 >>],
     [tens |-> 204, unit |-> 8,
      half |-> << 0, 0, 0, 0, 0, 0, 0, 0, 0, 0, 0, 0, 2, 2, 7, 3, 7, 3, 6, 7, 5, 4, 4, 3, 2, 3, 2,
                  0, 5, 9, 4, 7, 8, 7, 5, 9, 7, 6, 5, 6, 2, 5 >>],
     [tens |-> 409, unit |-> 6,
      half |-> << 0, 0, 0, 0, 0, 0, 0, 0, 0, 0, 0, 0, 4, 5, 4, 7, 4, 7, 3, 5, 0, 8, 8, 6, 4, 6, 4,
                  1, 1, 8, 9, 5, 7, 5, 1, 9, 5, 3, 1, 2, 5 >>],
     [tens |-> 819, unit |-> 2,
      half |-> << 0, 0, 0, 0, 0, 0, 0, 0, 0, 0, 0, 0, 9, 0, 9, 4, 9, 4, 7, 0, 1, 7, 7, 2, 9, 2, 8,
                  2, 3, 7, 9, 1, 5, 0, 3, 9, 0, 6, 2, 5 >>],
     [tens |-> 1638, unit |-> 4,
      half |-> << 0, 0, 0, 0, 0, 0, 0, 0, 0, 0, 0, 1, 8, 1, 8, 9, 8, 9, 4, 0, 3, 5, 4, 5, 8, 5, 6,
                  4, 7, 5, 8, 3, 0, 0, 7, 8, 1, 2, 5 >>],
     [tens |-> 3276, unit |-> 8,
      half |-> << 0, 0, 0, 0, 0, 0, 0, 0, 0, 0, 0, 3, 6, 3, 7, 9, 7, 8, 8, 0, 7, 0, 9, 1, 7, 1, 2,
                  9, 5, 1, 6, 6, 0, 1, 5, 6, 2, 5 >>],
     [tens |-> 6553, unit |-> 6,
      half |-> << 0, 0, 0, 0, 0, 0, 0, 0, 0, 0, 0, 7, 2, 7, 5, 9, 5, 7, 6, 1, 4, 1, 8, 3, 4, 2, 5,
                  9, 0, 3, 3, 2, 0, 3, 1, 2, 5 >>],
     [tens |-> 13107, unit |-> 2,
      half |-> << 0, 0, 0, 0, 0, 0, 0, 0, 0, 0, 1, 4, 5, 5, 1, 9, 1, 5, 2, 2, 8, 3, 6, 6, 8, 5, 1,
                  8, 0, 6, 6, 4, 0, 6, 2, 5 >>],
     [tens |-> 26214, unit |-> 4,
      half |-> << 0, 0, 0, 0, 0, 0, 0, 0, 0, 0, 2, 9, 1, 0, 3, 8, 3, 0, 4, 5, 6, 7, 3, 3, 7, 0, 3,
                  6, 1, 3, 2, 8, 1, 2, 5 >>],
     [tens |-> 52428, unit |-> 8,
      half |-> << 0, 0, 0, 0, 0, 0, 0, 0, 0, 0, 5, 8, 2, 0, 7, 6, 6, 0, 9, 1, 3, 4, 6, 7, 4, 0, 7,
                  2, 2, 6, 5, 6, 2, 5 >>],
     [tens |-> 104857, unit |-> 6,
      half |-> << 0, 0, 0, 0, 0, 0, 0, 0, 0, 1, 1, 6, 4, 1, 5, 3, 2, 1, 8, 2, 6, 9, 3, 4, 8, 1, 4,
                  4, 5, 3, 1, 2, 5 >>],
     [tens |-> 209715, unit |-> 2,
      half |-> << 0, 0, 0, 0, 0, 0, 0, 0, 0, 2, 3, 2, 8, 3, 0, 6, 4, 3, 6, 5, 3, 8, 6, 9, 6, 2, 8,
                  9, 0, 6, 2, 5 >>],
     [tens |-> 419430, unit |-> 4,
      half |-> << 0, 0, 0, 0, 0, 0, 0, 0, 0, 4, 6, 5, 6, 6, 1, 2, 8, 7, 3, 0, 7, 7, 3, 9, 2, 5, 7,
                  8, 1, 2, 5 >>],
     [tens |-> 838860, unit |-> 8,
      half |-> << 0, 0, 0, 0, 0, 0, 0, 0, 0, 9, 3, 1, 3, 2, 2, 5, 7, 4, 6, 1, 5, 4, 7, 8, 5, 1, 5,
                  6, 2, 5 >>],
     [tens |-> 1677721, unit |-> 6,
      half |-> << 0, 0, 0, 0, 0, 0, 0, 0, 1, 8, 6, 2, 6, 4, 5, 1, 4, 9, 2, 3, 0, 9, 5, 7, 0, 3, 1,
                  2, 5 >>],
     [tens |-> 3355443, unit |-> 2,
      half |-> << 0, 0, 0, 0, 0, 0, 0, 0, 3, 7, 2, 5, 2, 9, 0, 2, 9, 8, 4, 6, 1, 9, 1, 4, 0, 6, 2,
                  5 >>],
     [tens |-> 6710886, unit |-> 4,
      half |-> << 0, 0, 0, 0, 0, 0, 0, 0, 7, 4, 5, 0, 5, 8, 0, 5, 9, 6, 9, 2, 3, 8, 2, 8, 1, 2, 5 >>],
     [tens |-> 13421772, unit |-> 8,
      half |-> << 0, 0, 0, 0, 0, 0, 0, 1, 4, 9, 0, 1, 1, 6, 1, 1, 9, 3, 8, 4, 7, 6, 5, 6, 2, 5 >>],
     [tens |-> 26843545, unit |-> 6,
      half |-> << 0, 0, 0, 0, 0, 0, 0, 2, 9, 8, 0, 2, 3, 2, 2, 3, 8, 7, 6, 9, 5, 3, 1, 2, 5 >>],
     [tens |-> 53687091, unit |-> 2,
      half |-> << 0, 0, 0, 0, 0, 0, 0, 5, 9, 6, 0, 4, 6, 4, 4, 7, 7, 5, 3, 9, 0, 6, 2, 5 >>],
     [tens |-> 107374182, unit |-> 4,
      half |-> << 0, 0, 0, 0, 0, 0, 1, 1, 9, 2, 0, 9, 2, 8, 9, 5, 5, 0, 7, 8, 1, 2, 5 >>],
     [tens |-> 214748364, unit |-> 8,
      half |-> << 0, 0, 0, 0, 0, 0, 2, 3, 8, 4, 1, 8, 5, 7, 9, 1, 0, 1, 5, 6, 2, 5 >>],
     [tens |-> 429496729, unit |-> 6,
      half |-> << 0, 0, 0, 0, 0, 0, 4, 7, 6, 8, 3, 7, 1, 5, 8, 2, 0, 3, 1, 2, 5 >>],
     [tens |-> 858993459, unit |-> 2,
      half |-> << 0, 0, 0, 0, 0, 0, 9, 5, 3, 6, 7, 4, 3, 1, 6, 4, 0, 6, 2, 5 >>],
     [tens |-> 1717986918, unit |-> 4,
      half |-> << 0, 0, 0, 0, 0, 1, 9, 0, 7, 3, 4, 8, 6, 3, 2, 8, 1, 2, 5 >>]
  >>

\* the digit sequence a is below the digit sequence b of the same length
Below(a, b) ==
  \E k \in 1..Len(a) : a[k] < b[k] /\ \A m \in 1..(k - 1) : a[m] = b[m]

\* 2^-1075, half of the smallest double above 0, is 0.HalfDenormal * 10^-323;
\* a number of at most that size is read as 0
HalfDenormal ==
  << 2, 4, 7, 0, 3, 2, 8, 2, 2, 9, 2, 0, 6, 2, 3, 2, 7, 2, 0, 8, 8, 2, 8, 4, 3, 9, 6, 4, 3, 4,
     1, 1, 0, 6, 8, 6, 1, 8, 2, 5, 2, 9, 9, 0, 1, 3, 0, 7, 1, 6, 2, 3, 8, 2, 2, 1, 2, 7, 9, 2,
     8, 4, 1, 2, 5, 0, 3, 3, 7, 7, 5, 3, 6, 3, 5, 1, 0, 4, 3, 7, 5, 9, 3, 2, 6, 4, 9, 9, 1, 8,
     1, 8, 0, 8, 1, 7, 9, 9, 6, 1, 8, 9, 8, 9, 8, 2, 8, 2, 3, 4, 7, 7, 2, 2, 8, 5, 8, 8, 6, 5,
     4, 6, 3, 3, 2, 8, 3, 5, 5, 1, 7, 7, 9, 6, 9, 8, 9, 8, 1, 9, 9, 3, 8, 7, 3, 9, 8, 0, 0, 5,
     3, 9, 0, 9, 3, 9, 0, 6, 3, 1, 5, 0, 3, 5, 6, 5, 9, 5, 1, 5, 5, 7, 0, 2, 2, 6, 3, 9, 2, 2,
     9, 0, 8, 5, 8, 3, 9, 2, 4, 4, 9, 1, 0, 5, 1, 8, 4, 4, 3, 5, 9, 3, 1, 8, 0, 2, 8, 4, 9, 9,
     3, 6, 5, 3, 6, 1, 5, 2, 5, 0, 0, 3, 1, 9, 3, 7, 0, 4, 5, 7, 6, 7, 8, 2, 4, 9, 2, 1, 9, 3,
     6, 5, 6, 2, 3, 6, 6, 9, 8, 6, 3, 6, 5, 8, 4, 8, 0, 7, 5, 7, 0, 0, 1, 5, 8, 5, 7, 6, 9, 2,
     6, 9, 9, 0, 3, 7, 0, 6, 3, 1, 1, 9, 2, 8, 2, 7, 9, 5, 5, 8, 5, 5, 1, 3, 3, 2, 9, 2, 7, 8,
     3, 4, 3, 3, 8, 4, 0, 9, 3, 5, 1, 9, 7, 8, 0, 1, 5, 5, 3, 1, 2, 4, 6, 5, 9, 7, 2, 6, 3, 5,
     7, 9, 5, 7, 4, 6, 2, 2, 7, 6, 6, 4, 6, 5, 2, 7, 2, 8, 2, 7, 2, 2, 0, 0, 5, 6, 3, 7, 4, 0,
     0, 6, 4, 8, 5, 4, 9, 9, 9, 7, 7, 0, 9, 6, 5, 9, 9, 4, 7, 0, 4, 5, 4, 0, 2, 0, 8, 2, 8, 1,
     6, 6, 2, 2, 6, 2, 3, 7, 8, 5, 7, 3, 9, 3, 4, 5, 0, 7, 3, 6, 3, 3, 9, 0, 0, 7, 9, 6, 7, 7,
     6, 1, 9, 3, 0, 5, 7, 7, 5, 0, 6, 7, 4, 0, 1, 7, 6, 3, 2, 4, 6, 7, 3, 6, 0, 0, 9, 6, 8, 9,
     5, 1, 3, 4, 0, 5, 3, 5, 5, 3, 7, 4, 5, 8, 5, 1, 6, 6, 6, 1, 1, 3, 4, 2, 2, 3, 7, 6, 6, 6,
     7, 8, 6, 0, 4, 1, 6, 2, 1, 5, 9, 6, 8, 0, 4, 6, 1, 9, 1, 4, 4, 6, 7, 2, 9, 1, 8, 4, 0, 3,
     0, 0, 5, 3, 0, 0, 5, 7, 5, 3, 0, 8, 4, 9, 0, 4, 8, 7, 6, 5, 3, 9, 1, 7, 1, 1, 3, 8, 6, 5,
     9, 1, 6, 4, 6, 2, 3, 9, 5, 2, 4, 9, 1, 2, 6, 2, 3, 6, 5, 3, 8, 8, 1, 8, 7, 9, 6, 3, 6, 2,
     3, 9, 3, 7, 3, 2, 8, 0, 4, 2, 3, 8, 9, 1, 0, 1, 8, 6, 7, 2, 3, 4, 8, 4, 9, 7, 6, 6, 8, 2,
     3, 5, 0, 8, 9, 8, 6, 3, 3, 8, 8, 5, 8, 7, 9, 2, 5, 6, 2, 8, 3, 0, 2, 7, 5, 5, 9, 9, 5, 6,
     5, 7, 5, 2, 4, 4, 5, 5, 5, 0, 7, 2, 5, 5, 1, 8, 9, 3, 1, 3, 6, 9, 0, 8, 3, 6, 2, 5, 4, 7,
     7, 9, 1, 8, 6, 9, 4, 8, 6, 6, 7, 9, 9, 4, 9, 6, 8, 3, 2, 4, 0, 4, 9, 7, 0, 5, 8, 2, 1, 0,
     2, 8, 5, 1, 3, 1, 8, 5, 4, 5, 1, 3, 9, 6, 2, 1, 3, 8, 3, 7, 7, 2, 2, 8, 2, 6, 1, 4, 5, 4,
     3, 7, 6, 9, 3, 4, 1, 2, 5, 3, 2, 0, 9, 8, 5, 9, 1, 3, 2, 7, 6, 6, 7, 2, 3, 6, 3, 2, 8, 1,
     2, 5 >>

\* 11 * 2^-1075 is 0.ElevenHalves * 10^-322: a number below it is read as one
\* of the five smallest doubles above 0, whose tenth is 0 again
ElevenHalves ==
  << 2, 7, 1, 7, 3, 6, 1, 0, 5, 2, 1, 2, 6, 8, 5, 5, 9, 9, 2, 9, 7, 1, 1, 2, 8, 3, 6, 0, 7, 7,
     5, 2, 1, 7, 5, 4, 8, 0, 0, 7, 8, 2, 8, 9, 1, 4, 3, 7, 8, 7, 8, 6, 2, 0, 4, 3, 4, 0, 7, 2,
     1, 2, 5, 3, 7, 5, 3, 7, 1, 5, 2, 8, 9, 9, 8, 6, 1, 4, 8, 1, 3, 5, 2, 5, 9, 1, 4, 9, 0, 9,
     9, 9, 8, 8, 9, 9, 7, 9, 5, 8, 0, 8, 8, 8, 8, 1, 1, 0, 5, 8, 2, 4, 9, 5, 1, 4, 4, 7, 5, 2,
     0, 0, 9, 6, 6, 1, 1, 9, 0, 6, 9, 5, 7, 6, 6, 8, 8, 8, 0, 1, 9, 3, 2, 6, 1, 3, 7, 8, 0, 5,
     9, 3, 0, 0, 3, 2, 9, 6, 9, 4, 6, 5, 3, 9, 2, 2, 5, 4, 6, 7, 1, 2, 7, 2, 4, 9, 0, 3, 1, 5,
     1, 9, 9, 4, 4, 2, 3, 1, 6, 9, 4, 0, 1, 5, 7, 0, 2, 8, 7, 9, 5, 2, 4, 9, 8, 3, 1, 3, 4, 9,
     3, 0, 1, 8, 9, 7, 6, 7, 7, 5, 0, 3, 5, 1, 3, 0, 7, 5, 0, 3, 4, 4, 6, 0, 7, 4, 1, 4, 1, 3,
     0, 2, 1, 8, 6, 0, 3, 6, 8, 5, 0, 0, 2, 4, 3, 2, 8, 8, 3, 2, 7, 0, 1, 7, 4, 4, 3, 4, 6, 1,
     9, 6, 8, 9, 4, 0, 7, 6, 9, 4, 3, 1, 2, 1, 1, 0, 7, 5, 1, 4, 4, 0, 6, 4, 6, 6, 2, 2, 0, 6,
     1, 7, 7, 7, 2, 2, 5, 0, 2, 8, 7, 1, 7, 5, 8, 1, 7, 0, 8, 4, 3, 7, 1, 2, 5, 6, 9, 8, 9, 9,
     3, 7, 5, 3, 2, 0, 8, 5, 0, 4, 3, 1, 1, 1, 8, 0, 0, 1, 0, 9, 9, 4, 2, 0, 6, 2, 0, 1, 1, 4,
     0, 7, 1, 3, 4, 0, 4, 9, 9, 7, 4, 8, 0, 6, 2, 5, 9, 4, 1, 7, 4, 9, 9, 4, 2, 2, 9, 1, 0, 9,
     8, 2, 8, 4, 8, 8, 6, 1, 6, 4, 3, 1, 3, 2, 7, 9, 5, 8, 0, 9, 9, 7, 2, 9, 0, 8, 7, 6, 4, 5,
     3, 8, 1, 2, 3, 6, 3, 5, 2, 5, 7, 4, 1, 4, 1, 9, 3, 9, 5, 7, 1, 4, 0, 9, 6, 1, 0, 6, 5, 8,
     4, 6, 4, 7, 4, 5, 8, 9, 0, 9, 1, 2, 0, 4, 3, 6, 8, 3, 2, 7, 2, 4, 7, 6, 4, 6, 1, 4, 3, 3,
     4, 6, 4, 6, 4, 5, 7, 8, 3, 7, 5, 6, 4, 8, 5, 0, 8, 1, 0, 5, 9, 1, 4, 0, 2, 1, 0, 2, 4, 3,
     3, 0, 5, 8, 3, 0, 6, 3, 2, 8, 3, 9, 3, 3, 9, 5, 3, 6, 4, 1, 9, 3, 0, 8, 8, 2, 5, 2, 5, 2,
     5, 0, 8, 1, 0, 8, 6, 3, 4, 7, 7, 4, 0, 3, 8, 8, 6, 0, 1, 9, 2, 7, 0, 0, 6, 7, 5, 9, 9, 8,
     6, 3, 3, 1, 0, 6, 0, 8, 4, 6, 6, 2, 8, 0, 1, 2, 0, 5, 3, 9, 5, 8, 3, 3, 4, 7, 4, 3, 5, 0,
     5, 8, 5, 9, 8, 8, 4, 9, 7, 2, 7, 4, 4, 6, 7, 1, 8, 1, 9, 1, 1, 3, 3, 0, 3, 1, 5, 9, 5, 2,
     2, 3, 2, 7, 6, 9, 0, 1, 0, 5, 7, 9, 8, 0, 7, 0, 8, 2, 4, 5, 0, 5, 9, 9, 1, 9, 8, 8, 0, 2,
     5, 7, 1, 0, 5, 6, 4, 3, 5, 3, 4, 7, 9, 4, 4, 6, 5, 1, 5, 6, 4, 5, 4, 6, 7, 6, 4, 0, 3, 1,
     3, 1, 3, 6, 4, 5, 0, 3, 9, 9, 6, 5, 3, 5, 8, 3, 5, 2, 2, 1, 4, 9, 5, 1, 0, 8, 7, 5, 9, 9,
     8, 1, 4, 6, 2, 7, 5, 3, 7, 8, 5, 3, 0, 8, 4, 5, 0, 4, 6, 0, 4, 3, 3, 9, 5, 9, 9, 6, 0, 9,
     3, 7, 5 >>

\* The double nearest to the decimal number 0.digits * 10^point (ties to the
\* even one), as parseFloat gives it: the whole part as its tens and its unit
\* digit, whether a fraction is left, and inf when the tens are above
\* MaxInt32.  tiny: the double is not 0 but Math.floor of its tenth is.
Scaled(neg, digits, point) ==
  LET lead == LeadingZeros(digits, 1)
      sig == SubSeq(digits, lead + 1, Len(digits))
      p == point - lead
      Value(inf, t, u, frac, tiny) ==
        [nan |-> FALSE, inf |-> inf, neg |-> neg, tens |-> t, unit |-> u,
         frac |-> frac, tiny |-> tiny]
      whole == IF p <= 0 THEN <<>>
               ELSE IF p <= Len(sig) THEN SubSeq(sig, 1, p)
               ELSE sig \o [k \in 1..(p - Len(sig)) |-> "0"]
      tens == DigitsValue(whole, 1, Len(whole), 0)
      unit == IF whole = <<>> THEN 0 ELSE DigitVal[whole[Len(whole)]]
      \* the fraction digits written, and half the distance between the
      \* doubles around the whole part: 2^-j, j digits
      written == IF Len(sig) > p THEN Len(sig) - p ELSE 0
      binade == CHOOSE e \in 1..Len(Binades) :
                  LET Reached(b) == tens > b.tens \/ (tens = b.tens /\ unit >= b.unit)
                  IN Reached(Binades[e])
                       /\ (e = Len(Binades) \/ ~Reached(Binades[e + 1]))
      power == Binades[binade].half
      j == Len(power)
      n == IF written > j THEN written ELSE j
      fraction == SubSeq([k \in 1..n |-> IF p + k >= 1 /\ p + k <= Len(sig)
                                           THEN DigitVal[sig[p + k]] ELSE 0], 1, n)
      half == SubSeq([k \in 1..n |-> IF k <= j THEN power[k] ELSE 0], 1, n)
      oneLessHalf == SubSeq([k \in 1..n |-> IF k < j THEN 9 - half[k]
                                            ELSE IF k = j THEN 5 ELSE 0], 1, n)
      some == \E k \in 1..Len(sig) : k > p /\ sig[k] # "0"
      \* 2^-j is below 10^-5: a fraction whose first five digits are neither
      \* all 0 nor all 9 is further than that from both whole numbers
      plain == /\ \E k \in 1..5 : k <= n /\ fraction[k] # 0
               /\ \E k \in 1..5 : k > n \/ fraction[k] # 9
      \* sig against the digits of a tiny bound, both filled with zeros
      BelowBound(bound) ==
        LET m == IF Len(sig) > Len(bound) THEN Len(sig) ELSE Len(bound)
        IN Below([k \in 1..m |-> IF k <= Len(sig) THEN DigitVal[sig[k]] ELSE 0],
                 [k \in 1..m |-> IF k <= Len(bound) THEN bound[k] ELSE 0])
      AtMostBound(bound) ==
        LET m == IF Len(sig) > Len(bound) THEN Len(sig) ELSE Len(bound)
        IN ~Below([k \in 1..m |-> IF k <= Len(bound) THEN bound[k] ELSE 0],
                  [k \in 1..m |-> IF k <= Len(sig) THEN DigitVal[sig[k]] ELSE 0])
  IN IF sig = <<>> THEN Value(FALSE, 0, 0, FALSE, FALSE)
     ELSE IF p > 11 \/ tens = Overflow THEN Value(TRUE, 0, 0, FALSE, FALSE)
     ELSE IF p < 0 - 323 \/ (p = 0 - 323 /\ AtMostBound(HalfDenormal))
       THEN Value(FALSE, 0, 0, FALSE, FALSE)
     ELSE IF p < 0
       THEN Value(FALSE, 0, 0, TRUE,
                  p < 0 - 322 \/ (p = 0 - 322 /\ BelowBound(ElevenHalves)))
     ELSE IF plain THEN Value(FALSE, tens, unit, TRUE, FALSE)
     ELSE IF ~some \/ (p > 0 /\ ~Below(half, fraction))
       THEN Value(FALSE, tens, unit, FALSE, FALSE)
     ELSE IF Below(fraction, oneLessHalf) THEN Value(FALSE, tens, unit, TRUE, FALSE)
     ELSE IF unit < 9 THEN Value(FALSE, tens, unit + 1, FALSE, FALSE)
     ELSE IF tens = MaxInt32 THEN Value(TRUE, 0, 0, FALSE, FALSE)
     ELSE Value(FALSE, tens + 1, 0, FALSE, FALSE)

\* JavaScript parseFloat: leading white space is skipped, then the longest
\* prefix that is a StrDecimalLiteral is read: a sign, "Infinity" or digits
\* with an optional "." and fraction, and an exponent part when digits follow
\* the "e".  nan when no digit is read.  An exponent of 10^9 or more stands
\* for every larger one.
ParseFloat(s) ==
  LET ws == SkipWhiteSpace(s, 1)
      signed == ws <= Len(s) /\ s[ws] \in {"-", "+"}
      neg == signed /\ s[ws] = "-"
      start == IF signed THEN ws + 1 ELSE ws
      isInfinity == /\ start + 7 <= Len(s)
                    /\ SubSeq(s, start, start + 7) = InfinityChars
      iEnd == ScanDigits(s, start)
      hasDot == iEnd <= Len(s) /\ s[iEnd] = "."
      fEnd == IF hasDot THEN ScanDigits(s, iEnd + 1) ELSE iEnd
      hasInt == iEnd > start
      hasFrac == hasDot /\ fEnd > iEnd + 1
      hasMark == fEnd <= Len(s) /\ s[fEnd] \in {"e", "E"}
      eSigned == hasMark /\ fEnd + 1 <= Len(s) /\ s[fEnd + 1] \in {"-", "+"}
      eStart == IF eSigned THEN fEnd + 2 ELSE fEnd + 1
      eEnd == IF hasMark THEN ScanDigits(s, eStart) ELSE eStart
      hasExp == hasMark /\ eEnd > eStart
      eFirst == eStart + LeadingZeros(s, eStart)
      eAbs == IF ~hasExp THEN 0
              ELSE IF eEnd - eFirst > 9 THEN 1000000000
              ELSE DigitsValue(s, eFirst, eEnd, 0)
      exponent == IF eSigned /\ s[fEnd + 1] = "-" THEN 0 - eAbs ELSE eAbs
      digits == SubSeq(s, start, iEnd - 1)
                  \o (IF hasFrac THEN SubSeq(s, iEnd + 1, fEnd - 1) ELSE <<>>)
  IN IF isInfinity
       THEN [nan |-> FALSE, inf |-> TRUE, neg |-> neg, tens |-> 0, unit |-> 0,
             frac |-> FALSE, tiny |-> FALSE]
     ELSE IF ~hasInt /\ ~hasFrac
       THEN [nan |-> TRUE, inf |-> FALSE, neg |-> FALSE, tens |-> 0, unit |-> 0,
             frac |-> FALSE, tiny |-> FALSE]
     ELSE Scaled(neg, digits, (iEnd - start) + exponent)

\* slip: Math.round instead of Math.floor
RoundDiv10(x) ==
  IF x.nan THEN NaN
  ELSE IF x.inf THEN Beyond(IF x.neg THEN 0 - 1 ELSE 1)
  ELSE IF x.tens = MaxInt32 THEN Beyond(IF x.neg THEN 0 - 1 ELSE 1)
  ELSE IF ~x.neg THEN Num(x.tens + (IF x.unit >= 5 THEN 1 ELSE 0))
  ELSE Num(0 - (x.tens + (IF x.unit >= 6 THEN 1 ELSE 0)))

\* Math.floor(subtotal / 10); the division is exact enough that the floor of
\* the quotient is the floor of the exact tenth, except that the tenth of a
\* tiny number is 0
FloorDiv10(x) ==
  IF x.nan THEN NaN
  ELSE IF x.inf THEN Beyond(IF x.neg THEN 0 - 1 ELSE 1)
  ELSE IF ~x.neg THEN Num(x.tens)
  ELSE IF (x.unit = 0 /\ ~x.frac) \/ x.tiny THEN Num(0 - x.tens)
  ELSE IF x.tens = MaxInt32 THEN Beyond(0 - 1)
  ELSE Num(0 - (x.tens + 1))

\* const points = Math.floor(parseFloat(order.subtotal_price || "0") / 10)
ComputePoints(subtotal_price) ==
  FloorDiv10(ParseFloat(IF ~subtotal_price.defined \/ subtotal_price.chars = <<>>
                          THEN <<"0">> ELSE subtotal_price.chars))

\* slip: points < 0, so an order worth 0 points goes on to the commit path
PointsNegative(p) == ~p.nan /\ p.val < 0

\* points <= 0 (false for NaN, as every comparison with NaN is)
PointsTooLow(p) == ~p.nan /\ p.val <= 0

\* slip: the customer check comes after the points check, so it never decides
HasCustomerNotChecked(order) == TRUE

\* slip: only !order.customer is tested
HasCustomerObject(order) == order.customer.present

\* !order.customer || !order.customer.id
HasCustomer(order) == order.customer.present /\ order.customer.id # Undefined

\* slip: the topic check is missing
TopicNotChecked(topic) == TRUE

\* topic !== "orders/create"
TopicSupported(topic) == topic = "orders/create"

\* `order_${orderId}_processed`
EventKey(orderId) == <<"order_", orderId, "_processed">>

\* ------------------------------------------------------------ the store
\* LoyaltyPoints rows (id is the position; customerId carries the unique
\* index LoyaltyPoints_customerId_key)
Row(c, p) == [customerId |-> c, points |-> p]

\* prisma.loyaltyPoints.findUnique({ where: { customerId } })
FindUnique(rows, c) ==
  IF \E k \in 1..Len(rows) : rows[k].customerId = c
    THEN [found |-> TRUE,
          points |-> rows[CHOOSE k \in 1..Len(rows) : rows[k].customerId = c].points]
    ELSE [found |-> FALSE, points |-> 0]

\* prisma.loyaltyPoints.update({ where: { customerId }, data: { points } })
UpdateRow(rows, c, p) ==
  [k \in 1..Len(rows) |-> IF rows[k].customerId = c THEN Row(c, p) ELSE rows[k]]

\* prisma.loyaltyPoints.create({ data: { customerId, points } })
CreateRow(rows, c, p) == Append(rows, Row(c, p))

\* slip: customerId is declared without the unique index
CreateNeverRejected(rows, c) == FALSE

\* the unique index rejects a second row for a customerId
CreateRejected(rows, c) == FindUnique(rows, c).found

\* slip: the SELECT reads another table, which holds no marker rows
QueryMarkerWrongTable(ms, name) == <<>>

\* SELECT * FROM "_prisma_migrations" WHERE name = ... LIMIT 1
QueryMarker(ms, name) == IF BagIn(name, ms) THEN <<name>> ELSE <<>>

\* slip: existingOrder.length > 1, never true under LIMIT 1
ExistingOrderMany(existingOrder) == Len(existingOrder) > 1

\* Array.isArray(existingOrder) && existingOrder.length > 0
ExistingOrderFound(existingOrder) == Len(existingOrder) > 0

\* slip: the INSERT statement is issued after the ledger write, not before
InsertMarkerDeferred(ms, name) == ms

\* INSERT INTO "_prisma_migrations" (name, applied_steps_count) VALUES (.., 1)
InsertMarker(ms, name) == ms (+) SetToBag({name})

\* Outcomes the database can give the INSERT.  The repository declares no
\* unique key on the name column, so whether a second row with the same
\* name is rejected depends on the deployed table (markerNameUnique).
InsertOutcomes(ms, name, unique) ==
  IF unique /\ BagIn(name, ms) THEN {"duplicate", "error"} ELSE {"ok", "error"}

\* slip: the INSERT sits in its own try whose catch is empty
AfterInsertSwallowAll(outcome) == "findUnique"

\* slip: a duplicate rejection is swallowed and the ledger update follows
AfterInsertSwallowDuplicate(outcome) == IF outcome = "error" THEN "catch" ELSE "findUnique"

\* a rejected INSERT throws into the catch block; otherwise the ledger follows
AfterInsert(outcome) == IF outcome = "ok" THEN "findUnique" ELSE "catch"

\* slip: the catch block deletes the order's marker as a compensation
MarkersAfterCatchRollback(ms, name) == ms (-) SetToBag({name})

\* the catch block writes nothing to the store
MarkersAfterCatch(ms, name) == ms

\* slip: the update writes points instead of existingPoints.points + points
AddPointsOverwrite(old, p) == p

\* existingPoints.points + points
AddPoints(old, p) ==
  IF p.nan THEN NaN
  ELSE IF p.beyond # 0 THEN p
  ELSE IF p.val > 0 /\ old > MaxInt32 - p.val THEN Beyond(1)
  ELSE Num(old + p.val)

\* the points column is INTEGER NOT NULL: NaN and the numbers beyond its
\* range are not storable
Storable(p) == ~p.nan /\ p.beyond = 0

\* ------------------------------------- manual adjustment (app.loyalty.tsx)
\* formData.get("customerId"): empty when the field is missing
FormCustomerIds == {""} \cup CustomerIds

\* formData.get("points"), a string
FormPoints == { <<"2">>, <<"\f", "7">>, <<"-", "1">>, <<"a", "b", "c">> }

\* formData.get("operation")
Operations == {"add", "subtract", "set", "other"}

\* parseInt(s, 10): leading white space is skipped, then an optional sign
\* and the digits up to the first other character are read
ParseInt(s) ==
  LET ws == SkipWhiteSpace(s, 1)
      signed == ws <= Len(s) /\ s[ws] \in {"-", "+"}
      neg == signed /\ s[ws] = "-"
      start == IF signed THEN ws + 1 ELSE ws
      iEnd == ScanDigits(s, start)
      value == DigitsValue(s, start + LeadingZeros(s, start), iEnd, 0)
  IN IF iEnd = start THEN NaN
     ELSE IF value = Overflow THEN Beyond(IF neg THEN 0 - 1 ELSE 1)
     ELSE IF neg THEN Num(0 - value)
     ELSE Num(value)

\* !customerId || isNaN(pointsChange) || pointsChange < 0
InvalidAdjustment(customerId, pointsChange) ==
  customerId = "" \/ pointsChange.nan \/ pointsChange.val < 0

\* slip: existingPoints.points - pointsChange without Math.max
SubtractPointsUnclamped(old, change) == old - change

\* Math.max(0, existingPoints.points - pointsChange)
SubtractPoints(old, change) == IF old - change > 0 THEN old - change ELSE 0

\* let newPoints = pointsChange; if (existingPoints) { add / subtract / set },
\* for a pointsChange that passed the validation (a number >= 0)
NewPoints(existing, operation, pointsChange) ==
  IF ~existing.found THEN pointsChange
  ELSE IF operation = "add" THEN
    (IF pointsChange.beyond # 0 \/ existing.points > MaxInt32 - pointsChange.val
       THEN Beyond(1) ELSE Num(existing.points + pointsChange.val))
  ELSE IF operation = "subtract" THEN
    (IF pointsChange.beyond # 0 THEN Num(0)
       ELSE Num(SubtractPoints(existing.points, pointsChange.val)))
  ELSE pointsChange

\* json<ActionData>(...)
ActionData(success, text, newPoints) ==
  [success |-> success, text |-> text, newPoints |-> newPoints]
NoActionData == ActionData(FALSE, "none", 0)
InvalidInput == ActionData(FALSE, "Invalid customer ID or points value", 0)
FailedToUpdate == ActionData(FALSE, "Failed to update points", 0)
Updated(p) == ActionData(TRUE, "Updated points", p)

\* await admin.graphql(GetCustomer): resolves or rejects
GraphqlOutcomes == {"ok", "throws"}

\* await response.json() and the read of customer.displayName: the body is
\* parsed and names a customer, the parse throws, or data.customer is null
\* and the read throws
CustomerOutcomes == {"ok", "throws", "customer is null"}

\* -------------------------------- bulk inventory action (app.inventory.tsx)
\* longest submitted list of updates
MaxUpdates == 2

\* update.inventoryItemId: "" stands for an absent (undefined) id
InventoryItemIds == {"", "i1"}

\* update.locationId: "" stands for an absent (undefined) id
LocationIds == {"", "l1"}

VariantIds == {"v1", "v2"}

Quantities01 == 0..1

\* type InventoryUpdate (plus locationId)
InventoryUpdates == [variantId : VariantIds, productId : {"p1"}, oldQty : Quantities01,
                     newQty : Quantities01, inventoryItemId : InventoryItemIds,
                     locationId : LocationIds]

\* JSON.parse(formData.get("updates")): null for a missing field, or an array
NullUpdates == [null |-> TRUE, list |-> <<>>]
FormUpdates == {NullUpdates} \cup
               {[null |-> FALSE, list |-> l] :
                  l \in UNION {[1..n -> InventoryUpdates] : n \in 0..MaxUpdates}}

\* slip: the filter tests only update.inventoryItemId
ValidUpdatesAnyQty(updates) == SelectSeq(updates, LAMBDA u : u.inventoryItemId # "")

\* updates.filter(update => update.inventoryItemId && update.newQty !== update.oldQty)
ValidUpdates(updates) ==
  SelectSeq(updates, LAMBDA u : u.inventoryItemId # "" /\ u.newQty # u.oldQty)

\* validUpdates.map(update => ({ inventoryItemId, quantity, compareQuantity, [locationId] }));
\* locationId "" stands for an item without the locationId field
QuantitiesOf(validUpdates) ==
  [k \in 1..Len(validUpdates) |->
     [inventoryItemId |-> validUpdates[k].inventoryItemId,
      quantity |-> validUpdates[k].newQty,
      compareQuantity |-> validUpdates[k].oldQty,
      locationId |-> validUpdates[k].locationId]]

\* the deltas of the quantities that were set, one per quantity
ChangesOf(quantities) ==
  [k \in 1..Len(quantities) |-> quantities[k].quantity - quantities[k].compareQuantity]

\* result.inventoryAdjustmentGroup.changes as the platform answers it: null,
\* or a list, which need not hold a delta for every quantity
NullChanges == [null |-> TRUE, list |-> <<>>]
PlatformChanges(quantities) ==
  {NullChanges} \cup
  {[null |-> FALSE, list |-> SubSeq(ChangesOf(quantities), 1, n)] :
     n \in 0..Len(quantities)}

\* results.push(...(result.inventoryAdjustmentGroup.changes || []))
PushChanges(res, changes) == IF changes.null THEN res ELSE res \o changes.list

\* prisma.inventoryLog.create({ data: { productId, variantId, oldQty, newQty } })
LogRow(update) == [productId |-> update.productId, variantId |-> update.variantId,
                   oldQty |-> update.oldQty, newQty |-> update.newQty]

\* how await admin.graphql(inventorySetQuantities) can end: with an answer
\* that holds an adjustment group (the quantities were set), userErrors
\* (nothing was set) or neither field; or by throwing, before the platform
\* acted or after it has set the quantities
MutationOutcomes == {"inventoryAdjustmentGroup", "userErrors", "neither", "throws",
                     "throws after the quantities were set"}

\* the answer await admin.graphql resolved with, not yet read
Answer(kind, changes) == [kind |-> kind, changes |-> changes]

\* Response.json({ success, results, errors }) / ({ success: false, error })
InventoryResponse(success, error, results, errors) ==
  [success |-> success, error |-> error, results |-> results, errors |-> errors]
NoInventoryResponse == InventoryResponse(FALSE, "none", <<>>, <<>>)
NoUpdatesProvided == InventoryResponse(FALSE, "No updates provided", <<>>, <<>>)

\* ------------------------------ inventory screen: pagination (part_000)
\* The products matching the search are numbered 1..catalogSize in the order
\* the platform returns them; the cursor of product n is n, and 0 stands for
\* a null cursor.

\* most pages of a catalog followed
MaxPages == 3

\* longest cursorStack followed
MaxDepth == 2

\* first: before ? null : 10, last: before ? 10 : null (part_000:113-114)
PageSize == 10

Min(a, b) == IF a < b THEN a ELSE b

\* a page of products lo..hi (empty when hi < lo)
PageOf(lo, hi) == [lo |-> lo, hi |-> hi]

\* loader: products(first, last, after: cursor, before): the PageSize products
\* after cursor, or the last PageSize products before `before`
Loader(size, cursor, before) ==
  IF before # 0
    THEN LET end == Min(size + 1, before)
         IN PageOf(IF end - PageSize > 1 THEN end - PageSize ELSE 1, end - 1)
    ELSE PageOf(cursor + 1, Min(size, cursor + PageSize))

\* pageInfo.hasNextPage: products follow the page
HasNextPage(size, page) == page.hi < size

\* pageInfo.endCursor: cursor of the last product of the page, null when empty
EndCursor(page) == IF page.hi >= page.lo THEN page.hi ELSE 0

\* Pagination hasPrevious={cursorStack.length > 0}
HasPrevious(stack) == Len(stack) > 0

\* no page: what the round-trip claim expects while it expects nothing
NoPage == PageOf(0, 0)

\* useNavigation(): idle, loading the page a GET submit asked for (its
\* searchTerm, cursor and before parameters), or submitting the action's form
\* to the address of the screen; after the action has answered, the page of
\* that address is loaded again (state "loading", formMethod "POST")
Idle == [state |-> "idle", formMethod |-> "", searchTerm |-> "", cursor |-> 0,
         before |-> 0]
Loading(searchTerm, cursor, before) ==
  [state |-> "loading", formMethod |-> "GET", searchTerm |-> searchTerm,
   cursor |-> cursor, before |-> before]

\* ----------------------------------- inventory screen: toast (part_000)
\* the text of a quantity field, as handleQuantityChange receives it
QuantityFields ==
  { <<"7">>, <<"\f", "0", "8">>, <<"-", "1">>, <<"a", "b", "c">>, <<>>,
    <<"9", "9", "9", "9", "9", "9", "9", "9", "9", "9">> }

\* useState<Record<string, number>>({}): inventoryChanges maps the edited
\* variants to their new quantities
NoChanges == <<>>

\* { ...inventoryChanges, [variantId]: newQty }
SetChange(changes, variantId, newQty) ==
  [v \in DOMAIN changes \cup {variantId} |-> IF v = variantId THEN newQty ELSE changes[v]]

\* Object.keys(inventoryChanges).length
KeysOf(changes) == Cardinality(DOMAIN changes)

\* !isNaN(newQty) && newQty >= 0
ValidQuantity(newQty) == ~newQty.nan /\ newQty.val >= 0

\* useActionData(): undefined until an action has completed
NoActionResult == [present |-> FALSE, success |-> FALSE]
ActionResult(success) == [present |-> TRUE, success |-> success]

\* toastMessage
NoMessage == [text |-> "", count |-> 0]
NoChangesToSave == [text |-> "No changes to save", count |-> 0]
UpdatedMessage(updateCount) ==
  [text |-> "Successfully updated variant(s) inventory quantities", count |-> updateCount]
ErrorMessage == [text |-> "Error", count |-> 0]

\* if (actionData && !showToast), evaluated in every render
ShowsToast(data, shown) == data.present /\ ~shown

\* --------------------------------------------- debounce (part_000:549-567)
\* wait, in ticks of the clock; the last instant followed; most calls followed
Wait == 2
MaxTime == 4
MaxCalls == 3

\* what the search field can hold
SearchValues == {"", "a", "ab"}

\* timeout: null (0) or the id of the timer set last
NoTimer == 0

\* slip: the pending timer is not cleared
ClearTimeoutSkipped(pending, id) == pending

\* clearTimeout(timeout)
ClearTimeout(pending, id) == {t \in pending : t.id # id}

\* setTimeout(later, wait): the pending timer is due at `due` and will call
\* func(args)
SetTimeout(pending, id, at, args) ==
  pending \cup {[id |-> id, due |-> at + Wait, args |-> args]}

\* ------------------------------------------------------------ responses
Response(status, body, pts) == [status |-> status, body |-> body, points |-> pts]
NoResponse == Response(0, "none", 0)
TopicNotSupported == Response(400, "Webhook topic not supported", 0)
NoCustomerResponse == Response(200, "No customer associated with this order", 0)
NoPointsResponse == Response(200, "No points earned (subtotal too low)", 0)
AlreadyProcessed == Response(200, "Order already processed", 0)
Added(p) == Response(200, "Added points to customer", p)
ErrorResponse == Response(500, "Error processing webhook", 0)

\* --------------------------------------------------------------- state
VARIABLES
  markerNameUnique, \* whether the deployed "_prisma_migrations" table rejects a
                    \* repeated name (part_000:1100-1103; the repository declares no such key)
  markers,          \* bag of the name values of the inserted marker rows (part_000:1100-1103)
  ledger,           \* sequence of LoyaltyPoints rows (migration.sql:46-56)
  ledger0,          \* the ledger before any invocation (never changes)
  pc,               \* position of each invocation in action (part_000:1061-1138)
  topic,            \* const topic (part_000:1062)
  order,            \* const order (part_000:1070)
  points,           \* const points (part_000:1079)
  existingPoints,   \* const existingPoints (part_000:1106)
  response,         \* the Response each invocation returned
  thrown,           \* what was thrown inside the try block, per invocation (part_000:1131)
  ledgerWrites,     \* number of update/create statements that succeeded, per invocation
                    \* (part_000:1111-1125)
  adjPc,            \* position of each manual adjustment in action (app.loyalty.tsx:206-280)
  adjCustomerId,    \* const customerId (app.loyalty.tsx:209)
  adjPointsChange,  \* const pointsChange (app.loyalty.tsx:210)
  adjOperation,     \* const operation (app.loyalty.tsx:211)
  adjExistingPoints,\* const existingPoints (app.loyalty.tsx:222)
  adjResult,        \* the ActionData each manual adjustment returned
  adjWrites,        \* number of update/create statements that succeeded, per
                    \* manual adjustment (app.loyalty.tsx:236-253)
  invPc,            \* position of the inventory action (app.inventory.tsx:132-228)
  updates,          \* const updates (app.inventory.tsx:135)
  validUpdates,     \* const validUpdates (app.inventory.tsx:145)
  mutationsSent,    \* the quantities list of every inventorySetQuantities mutation sent
                    \* (app.inventory.tsx:167-192)
  upstreamSet,      \* the quantities lists the platform has applied
  mutationAnswer,   \* const response (app.inventory.tsx:167)
  inventoryLog,     \* rows of the InventoryLog table (app.inventory.tsx:205-213)
  results,          \* const results (app.inventory.tsx:141)
  errors,           \* const errors (app.inventory.tsx:142)
  invResponse,      \* the Response.json the inventory action returned
  catalogSize,      \* number of products the loader's query matches (part_000:120-122)
  page,             \* products shown: useLoaderData().products (part_000:248)
  cursorStack,      \* const [cursorStack, setCursorStack] (part_000:258)
  navigation,       \* useNavigation() (part_000:250) with the parameters of the
                    \* pending load
  location,         \* the parameters of the URL of the page shown (part_000:55-58)
  trail,            \* the page that was shown when each cursor of cursorStack
                    \* was pushed
  onlyNext,         \* whether the screen came from the first page by presses of
                    \* Next alone, none of their loads replaced
  expected,         \* the page shown before the last Next, when Previous was
                    \* pressed after Next presses only and its load is pending
  actionData,       \* useActionData() (part_000:249)
  showToast,        \* const [showToast, setShowToast] (part_000:255)
  toastMessage,     \* const [toastMessage, setToastMessage] (part_000:256)
  toastError,       \* const [toastError, setToastError] (part_000:257)
  inventoryChanges, \* const [inventoryChanges, setInventoryChanges] (part_000:253)
  needsRender,      \* a state change has scheduled a render of InventoryManager
  dismissed,        \* the user dismissed the toast since the last action result
  searchValue,      \* const [searchValue, setSearchValue] (part_000:254)
  now,              \* the clock, in ticks
  timeout,          \* let timeout (part_000:554)
  timers,           \* the timers setTimeout has pending (part_000:565)
  timersSet,        \* number of timers set so far (the next timer's id follows)
  calls,            \* the calls of the debounced function so far: time and arguments
  invocations       \* the invocations of func so far: time and arguments

adjVars == <<adjPc, adjCustomerId, adjPointsChange, adjOperation, adjExistingPoints,
             adjResult, adjWrites>>

invVars == <<invPc, updates, validUpdates, mutationsSent, upstreamSet, mutationAnswer,
             inventoryLog, results, errors, invResponse>>

\* what the round-trip claim remembers of the pages shown
pageHistory == <<trail, onlyNext, expected>>

pageVars == <<catalogSize, page, location, cursorStack, navigation, pageHistory>>

toastState == <<actionData, showToast, toastMessage, toastError, inventoryChanges,
                dismissed>>

toastVars == <<toastState, needsRender>>

debounceVars == <<searchValue, now, timeout, timers, timersSet, calls, invocations>>

\* the inventory action and the inventory screen
screenVars == <<invVars, pageVars, toastVars, debounceVars>>

vars == <<markerNameUnique, markers, ledger, ledger0, pc, topic, order, points,
          existingPoints, response, thrown, ledgerWrites, adjVars, screenVars>>

webhookVars == <<markerNameUnique, markers, ledger0, pc, topic, order, points,
                 existingPoints, response, thrown, ledgerWrites>>

InitialLedgers == { <<>>, <<Row("c1", 5)>> }

NoOrder == [parseable |-> FALSE, raw |-> "unread"]
NotFound == [found |-> FALSE, points |-> 0]

\* no manual adjustment has been submitted
AdjInit ==
  /\ adjPc = [a \in Adjustments |-> "idle"]
  /\ adjCustomerId = [a \in Adjustments |-> ""]
  /\ adjPointsChange = [a \in Adjustments |-> Num(0)]
  /\ adjOperation = [a \in Adjustments |-> "none"]
  /\ adjExistingPoints = [a \in Adjustments |-> NotFound]
  /\ adjResult = [a \in Adjustments |-> NoActionData]
  /\ adjWrites = [a \in Adjustments |-> 0]

\* the inventory action has not been submitted
InvInit ==
  /\ invPc = "idle"
  /\ updates = NullUpdates
  /\ validUpdates = <<>>
  /\ mutationsSent = <<>>
  /\ upstreamSet = <<>>
  /\ mutationAnswer = Answer("none", NullChanges)
  /\ inventoryLog = <<>>
  /\ results = <<>>
  /\ errors = <<>>
  /\ invResponse = NoInventoryResponse

\* the first load of the screen: no cursor, no "before" (part_000:57-58)
FirstPage(size) == Loader(size, 0, 0)

PageInit(size) ==
  /\ catalogSize = size
  /\ page = FirstPage(size)
  /\ cursorStack = <<>>
  /\ navigation = Idle
  /\ location = [searchTerm |-> "", cursor |-> 0, before |-> 0]
  /\ trail = <<>>
  /\ onlyNext = TRUE
  /\ expected = NoPage

\* useState(false), useState(""), useState(false), useState({})
ToastInit ==
  /\ actionData = NoActionResult
  /\ showToast = FALSE
  /\ toastMessage = NoMessage
  /\ toastError = FALSE
  /\ inventoryChanges = NoChanges
  /\ needsRender = FALSE
  /\ dismissed = FALSE

\* useState(searchTerm || "") on the first load; the effect of the mount
\* (part_000:283-285) has called debouncedSearch(searchValue), so the first
\* timer is pending
DebounceInit ==
  /\ searchValue = ""
  /\ now = 0
  /\ timeout = 1
  /\ timers = SetTimeout({}, 1, 0, "")
  /\ timersSet = 1
  /\ calls = << [time |-> 0, args |-> ""] >>
  /\ invocations = <<>>

\* the inventory action at rest and the screen after its first load, over a
\* catalog of two pages
ScreenInit == InvInit /\ PageInit(PageSize + 1) /\ ToastInit /\ DebounceInit

Init ==
  /\ ScreenInit
  /\ markerNameUnique \in BOOLEAN
  /\ markers = EmptyBag
  /\ ledger \in InitialLedgers
  /\ ledger0 = ledger
  /\ pc = [i \in Invocations |-> "idle"]
  /\ topic = [i \in Invocations |-> "none"]
  /\ order = [i \in Invocations |-> NoOrder]
  /\ points = [i \in Invocations |-> Num(0)]
  /\ existingPoints = [i \in Invocations |-> NotFound]
  /\ response = [i \in Invocations |-> NoResponse]
  /\ thrown = [i \in Invocations |-> "nothing"]
  /\ ledgerWrites = [i \in Invocations |-> 0]
  /\ AdjInit

\* return new Response(...): the invocation ends
Return(i, r) ==
  /\ response' = [response EXCEPT ![i] = r]
  /\ pc' = [pc EXCEPT ![i] = "done"]

\* a store statement (or request.json()) throws
Throw(i, what) == thrown' = [thrown EXCEPT ![i] = what]

\* catch (error) { return new Response(..., { status: 500 }) }
Catch(i) ==
  /\ Return(i, ErrorResponse)
  /\ markers' = MarkersAfterCatch(markers, EventKey(order[i].id))

\* lines 1062-1086: topic check, body parse, customer check, points.
\* The body is read (request.json()) only after the topic check has passed.
Receive(i, t, body) ==
  /\ pc[i] = "idle"
  /\ UNCHANGED <<adjVars, screenVars>>
  /\ topic' = [topic EXCEPT ![i] = t]
  /\ order' = [order EXCEPT ![i] = IF TopicSupported(t) THEN body ELSE NoOrder]
  /\ UNCHANGED <<markerNameUnique, ledger, ledger0, existingPoints, ledgerWrites>>
  /\ IF ~TopicSupported(t)
       THEN /\ Return(i, TopicNotSupported)
            /\ UNCHANGED <<markers, points, thrown>>
     ELSE IF ~body.parseable
       THEN /\ Throw(i, "json")
            /\ Return(i, ErrorResponse)
            /\ UNCHANGED <<markers, points>>
     ELSE IF ~HasCustomer(body)
       THEN /\ Return(i, NoCustomerResponse)
            /\ UNCHANGED <<markers, points, thrown>>
     ELSE /\ points' = [points EXCEPT ![i] = ComputePoints(body.subtotal_price)]
          /\ UNCHANGED <<markers, thrown>>
          /\ IF PointsTooLow(points'[i])
               THEN Return(i, NoPointsResponse)
               ELSE /\ pc' = [pc EXCEPT ![i] = "lookup"]
                    /\ UNCHANGED response

\* lines 1089-1097: the marker lookup
Lookup(i, fault) ==
  /\ pc[i] = "lookup"
  /\ UNCHANGED <<adjVars, screenVars>>
  /\ UNCHANGED <<markerNameUnique, ledger, ledger0, topic, order, points,
                 existingPoints, ledgerWrites>>
  /\ IF fault
       THEN Throw(i, "error") /\ Catch(i)
     ELSE /\ UNCHANGED <<markers, thrown>>
          /\ IF ExistingOrderFound(QueryMarker(markers, EventKey(order[i].id)))
               THEN Return(i, AlreadyProcessed)
               ELSE /\ pc' = [pc EXCEPT ![i] = "insert"]
                    /\ UNCHANGED response

\* lines 1100-1103: the marker insert
Insert(i, outcome) ==
  /\ pc[i] = "insert"
  /\ UNCHANGED <<adjVars, screenVars>>
  /\ outcome \in InsertOutcomes(markers, EventKey(order[i].id), markerNameUnique)
  /\ UNCHANGED <<markerNameUnique, ledger, ledger0, topic, order, points,
                 existingPoints, ledgerWrites>>
  /\ IF outcome = "ok" THEN UNCHANGED thrown ELSE Throw(i, outcome)
  /\ IF AfterInsert(outcome) = "catch"
       THEN Catch(i)
     ELSE /\ markers' = IF outcome = "ok"
                          THEN InsertMarker(markers, EventKey(order[i].id))
                          ELSE markers
          /\ pc' = [pc EXCEPT ![i] = AfterInsert(outcome)]
          /\ UNCHANGED response

\* lines 1106-1108: the ledger read
Find(i, fault) ==
  /\ pc[i] = "findUnique"
  /\ UNCHANGED <<adjVars, screenVars>>
  /\ UNCHANGED <<markerNameUnique, ledger, ledger0, topic, order, points, ledgerWrites>>
  /\ IF fault
       THEN /\ Throw(i, "error") /\ Catch(i)
            /\ UNCHANGED existingPoints
     ELSE /\ existingPoints' = [existingPoints EXCEPT
                                  ![i] = FindUnique(ledger, order[i].customer.id)]
          /\ pc' = [pc EXCEPT ![i] = "write"]
          /\ UNCHANGED <<markers, response, thrown>>

\* lines 1110-1130: the ledger write and the response
Write(i, fault) ==
  /\ pc[i] = "write"
  /\ UNCHANGED <<adjVars, screenVars>>
  /\ UNCHANGED <<markerNameUnique, ledger0, topic, order, points, existingPoints>>
  /\ LET c == order[i].customer.id
         newPoints == IF existingPoints[i].found
                        THEN AddPoints(existingPoints[i].points, points[i])
                        ELSE points[i]
         rejected == \/ fault
                     \/ ~Storable(newPoints)
                     \/ ~existingPoints[i].found /\ CreateRejected(ledger, c)
     IN IF rejected
          THEN /\ Throw(i, "error") /\ Catch(i)
               /\ UNCHANGED <<ledger, ledgerWrites>>
          ELSE /\ ledger' = IF existingPoints[i].found
                              THEN UpdateRow(ledger, c, newPoints.val)
                              ELSE CreateRow(ledger, c, newPoints.val)
               /\ ledgerWrites' = [ledgerWrites EXCEPT ![i] = @ + 1]
               /\ Return(i, Added(points[i].val))
               /\ UNCHANGED <<markers, thrown>>

Next ==
  \/ \E i \in Invocations, t \in Topics, body \in Bodies : Receive(i, t, body)
  \/ \E i \in Invocations, fault \in BOOLEAN : Lookup(i, fault)
  \/ \E i \in Invocations, outcome \in {"ok", "duplicate", "error"} : Insert(i, outcome)
  \/ \E i \in Invocations, fault \in BOOLEAN : Find(i, fault)
  \/ \E i \in Invocations, fault \in BOOLEAN : Write(i, fault)

Spec == Init /\ [][Next]_vars

\* ------------------------------------------- manual adjustment: the steps
\* return json<ActionData>(...): the adjustment ends
AdjReturn(a, r) ==
  /\ adjResult' = [adjResult EXCEPT ![a] = r]
  /\ adjPc' = [adjPc EXCEPT ![a] = "done"]

\* app.loyalty.tsx 207-218: read the form, validate
AdjustReceive(a, customerId, pointsField, operation) ==
  /\ adjPc[a] = "idle"
  /\ adjCustomerId' = [adjCustomerId EXCEPT ![a] = customerId]
  /\ adjPointsChange' = [adjPointsChange EXCEPT ![a] = ParseInt(pointsField)]
  /\ adjOperation' = [adjOperation EXCEPT ![a] = operation]
  /\ UNCHANGED screenVars
  /\ UNCHANGED <<webhookVars, ledger, adjExistingPoints, adjWrites>>
  /\ IF InvalidAdjustment(customerId, ParseInt(pointsField))
       THEN AdjReturn(a, InvalidInput)
       ELSE /\ adjPc' = [adjPc EXCEPT ![a] = "find"]
            /\ UNCHANGED adjResult

\* app.loyalty.tsx 222-224: the ledger read
AdjustFind(a, fault) ==
  /\ adjPc[a] = "find"
  /\ UNCHANGED screenVars
  /\ UNCHANGED <<webhookVars, ledger, adjCustomerId, adjPointsChange, adjOperation,
                 adjWrites>>
  /\ IF fault
       THEN /\ AdjReturn(a, FailedToUpdate)
            /\ UNCHANGED adjExistingPoints
       ELSE /\ adjExistingPoints' = [adjExistingPoints EXCEPT
                                       ![a] = FindUnique(ledger, adjCustomerId[a])]
            /\ adjPc' = [adjPc EXCEPT ![a] = "write"]
            /\ UNCHANGED adjResult

\* app.loyalty.tsx 226-253: newPoints and the ledger write (update or create)
AdjustWrite(a, fault) ==
  /\ adjPc[a] = "write"
  /\ UNCHANGED screenVars
  /\ UNCHANGED <<webhookVars, adjCustomerId, adjPointsChange, adjOperation,
                 adjExistingPoints>>
  /\ LET c == adjCustomerId[a]
         newPoints == NewPoints(adjExistingPoints[a], adjOperation[a],
                                adjPointsChange[a])
         rejected == \/ fault
                     \/ ~Storable(newPoints)
                     \/ ~adjExistingPoints[a].found /\ CreateRejected(ledger, c)
     IN IF rejected
          THEN /\ AdjReturn(a, FailedToUpdate)
               /\ UNCHANGED <<ledger, adjWrites>>
          ELSE /\ ledger' = IF adjExistingPoints[a].found
                              THEN UpdateRow(ledger, c, newPoints.val)
                              ELSE CreateRow(ledger, c, newPoints.val)
               /\ adjWrites' = [adjWrites EXCEPT ![a] = @ + 1]
               /\ adjPc' = [adjPc EXCEPT ![a] = "graphql"]
               /\ UNCHANGED adjResult

\* app.loyalty.tsx 255-264: await admin.graphql(GetCustomer), after the write
AdjustGraphql(a, outcome) ==
  /\ adjPc[a] = "graphql"
  /\ UNCHANGED screenVars
  /\ UNCHANGED <<webhookVars, ledger, adjCustomerId, adjPointsChange, adjOperation,
                 adjExistingPoints, adjWrites>>
  /\ IF outcome = "ok"
       THEN /\ adjPc' = [adjPc EXCEPT ![a] = "json"]
            /\ UNCHANGED adjResult
       ELSE AdjReturn(a, FailedToUpdate)

\* app.loyalty.tsx 266-278: await response.json(), the read of the customer,
\* and the result
AdjustJson(a, outcome) ==
  /\ adjPc[a] = "json"
  /\ UNCHANGED screenVars
  /\ UNCHANGED <<webhookVars, ledger, adjCustomerId, adjPointsChange, adjOperation,
                 adjExistingPoints, adjWrites>>
  /\ AdjReturn(a, IF outcome = "ok"
                    THEN Updated(NewPoints(adjExistingPoints[a], adjOperation[a],
                                           adjPointsChange[a]).val)
                    ELSE FailedToUpdate)

\* The webhook and the manual adjustment against the same ledger: one webhook
\* invocation delivered an awarding order, and NumAdjustments form submissions.
LedgerBodies == {o \in Orders : /\ o.id = 1
                                /\ o.customer.present /\ o.customer.id # Undefined
                                /\ o.subtotal_price = Str(<<"1", "0", ".", "0", "0">>)}

NextLedger ==
  \/ \E body \in LedgerBodies : Receive(1, "orders/create", body)
  \/ \E fault \in BOOLEAN : Lookup(1, fault)
  \/ \E outcome \in {"ok", "duplicate", "error"} : Insert(1, outcome)
  \/ \E fault \in BOOLEAN : Find(1, fault)
  \/ \E fault \in BOOLEAN : Write(1, fault)
  \/ \E a \in Adjustments, customerId \in FormCustomerIds, pointsField \in FormPoints,
        operation \in Operations : AdjustReceive(a, customerId, pointsField, operation)
  \/ \E a \in Adjustments, fault \in BOOLEAN : AdjustFind(a, fault)
  \/ \E a \in Adjustments, fault \in BOOLEAN : AdjustWrite(a, fault)
  \/ \E a \in Adjustments, outcome \in GraphqlOutcomes : AdjustGraphql(a, outcome)
  \/ \E a \in Adjustments, outcome \in CustomerOutcomes : AdjustJson(a, outcome)

\* the marker table plays no part in the ledger's rows: one deployment is enough
InitLedger == Init /\ ~markerNameUnique

SpecLedger == InitLedger /\ [][NextLedger]_vars

\* ------------------------------------------ one invocation, many payloads
\* A second specification over the same actions: a single invocation
\* (number 1) is delivered any event of a wide set of payloads, against a
\* store that may already hold the marker of order 1 and ledger rows.
MaxTens == 5

DigitChar(d) ==
  CASE d = 0 -> "0" [] d = 1 -> "1" [] d = 2 -> "2" [] d = 3 -> "3" [] d = 4 -> "4"
    [] d = 5 -> "5" [] d = 6 -> "6" [] d = 7 -> "7" [] d = 8 -> "8" [] d = 9 -> "9"

\* decimal digits of a natural number
RECURSIVE NatToChars(_)
NatToChars(n) ==
  IF n < 10 THEN <<DigitChar(n)>> ELSE Append(NatToChars(n \div 10), DigitChar(n % 10))

\* an amount of cents written the way the platform sends prices: "19.99"
FormatCents(c) ==
  NatToChars(c \div 100) \o <<".", DigitChar((c % 100) \div 10), DigitChar(c % 10)>>

\* amounts around every multiple of 10 currency units up to MaxTens * 10
CentsSamples == {t * 1000 + k : t \in 0..MaxTens, k \in {0, 1, 500, 999}}

NumericSubtotals == {Str(FormatCents(c)) : c \in CentsSamples}

NegativeSubtotals == { Str(<<"-">> \o FormatCents(c)) : c \in {1, 999, 1000, 3000} }
                       \cup { Str(<<"-", "3", "0">>) }

NonNumericSubtotals == { Str(<<"a", "b", "c">>), Str(<<"-">>), Str(<<".">>) }

\* with numbers written with an exponent, after white space, or as Infinity,
\* numbers with more digits than a double holds (they round to 10 and to 20)
\* and a number too small for a double (it rounds to -0)
WideSubtotals == NumericSubtotals \cup NegativeSubtotals \cup NonNumericSubtotals
                   \cup { Str(<<"5", "e", "1">>), Str(<<" ", "1", "0", ".", "0", "0">>),
                          Str(<<"\t", "2", "5">>), Str(<<"\f", "1", "0", ".", "0", "0">>),
                          Str(<<"U+00A0", "2", "0">>), Str(InfinityChars),
                          Str(<<"-">> \o InfinityChars) }
                   \cup { Str(<<"9", ".", "9", "9", "9", "9", "9", "9", "9", "9", "9", "9", "9", "9", "9", "9", "9", "9", "9", "9", "9">>),
                          Str(<<"1", "9", ".", "9", "9", "9", "9", "9", "9", "9", "9", "9", "9", "9", "9", "9", "9", "9", "9", "9">>),
                          Str(<<"-", "1", "e", "-", "4", "0", "0">>) }
                   \cup {NoSubtotal, Str(<<>>)}

WideBodies == [parseable : {TRUE}, id : OrderIds, customer : Customers,
               subtotal_price : WideSubtotals] \cup {Unparseable}

InitOne ==
  /\ ScreenInit
  /\ markerNameUnique \in BOOLEAN
  /\ markers \in { EmptyBag, SetToBag({EventKey(1)}) }
  /\ ledger \in { <<>>, <<Row("c1", 5)>>, <<Row("c1", 5), Row("c2", 7)>> }
  /\ ledger0 = ledger
  /\ pc = [i \in Invocations |-> "idle"]
  /\ topic = [i \in Invocations |-> "none"]
  /\ order = [i \in Invocations |-> NoOrder]
  /\ points = [i \in Invocations |-> Num(0)]
  /\ existingPoints = [i \in Invocations |-> NotFound]
  /\ response = [i \in Invocations |-> NoResponse]
  /\ thrown = [i \in Invocations |-> "nothing"]
  /\ ledgerWrites = [i \in Invocations |-> 0]
  /\ AdjInit

NextOne ==
  \/ \E t \in Topics, body \in WideBodies : Receive(1, t, body)
  \/ \E fault \in BOOLEAN : Lookup(1, fault)
  \/ \E outcome \in {"ok", "duplicate", "error"} : Insert(1, outcome)
  \/ \E fault \in BOOLEAN : Find(1, fault)
  \/ \E fault \in BOOLEAN : Write(1, fault)

SpecOne == InitOne /\ [][NextOne]_vars

\* ------------------------------------------- the bulk inventory action
\* everything of the loyalty side: the tables, the webhook, the manual form
loyaltyVars == <<webhookVars, ledger, adjVars>>

\* the loyalty side at rest over empty tables
LoyaltyAtRest ==
  /\ markerNameUnique = FALSE
  /\ markers = EmptyBag
  /\ ledger = <<>>
  /\ ledger0 = <<>>
  /\ pc = [i \in Invocations |-> "idle"]
  /\ topic = [i \in Invocations |-> "none"]
  /\ order = [i \in Invocations |-> NoOrder]
  /\ points = [i \in Invocations |-> Num(0)]
  /\ existingPoints = [i \in Invocations |-> NotFound]
  /\ response = [i \in Invocations |-> NoResponse]
  /\ thrown = [i \in Invocations |-> "nothing"]
  /\ ledgerWrites = [i \in Invocations |-> 0]
  /\ AdjInit

\* return Response.json({ success: errors.length === 0, results, errors })
InventoryReturn ==
  /\ invPc' = "done"
  /\ invResponse' = InventoryResponse(Len(errors') = 0, "", results', errors')

\* app.inventory.tsx 133-150: parse the form, the empty check, the filter
InventoryReceive(form) ==
  /\ invPc = "idle"
  /\ updates' = form
  /\ UNCHANGED <<loyaltyVars, pageVars, toastVars, debounceVars>>
  /\ UNCHANGED <<mutationsSent, upstreamSet, mutationAnswer, inventoryLog, results,
                 errors>>
  /\ IF form.null \/ Len(form.list) = 0
       THEN /\ invPc' = "done"
            /\ invResponse' = NoUpdatesProvided
            /\ UNCHANGED validUpdates
       ELSE /\ validUpdates' = ValidUpdates(form.list)
            /\ IF Len(validUpdates') > 0
                 THEN invPc' = "mutate" /\ UNCHANGED invResponse
                 ELSE InventoryReturn

\* catch (error) { errors.push({ message: `Failed to update inventory: ...` }) }
\* and the return that follows (app.inventory.tsx:216-227)
InventoryCatch ==
  /\ errors' = Append(errors, "Failed to update inventory")
  /\ InventoryReturn

\* app.inventory.tsx 151-192: the quantities and await admin.graphql(inventorySetQuantities)
InventoryMutate(outcome, changes) ==
  /\ invPc = "mutate"
  /\ outcome # "inventoryAdjustmentGroup" => changes = NullChanges
  /\ UNCHANGED <<loyaltyVars, pageVars, toastVars, debounceVars>>
  /\ UNCHANGED <<updates, validUpdates, inventoryLog, results>>
  /\ mutationsSent' = Append(mutationsSent, QuantitiesOf(validUpdates))
  /\ upstreamSet' = IF outcome \in {"inventoryAdjustmentGroup",
                                     "throws after the quantities were set"}
                      THEN Append(upstreamSet, QuantitiesOf(validUpdates))
                      ELSE upstreamSet
  /\ IF outcome \in {"throws", "throws after the quantities were set"}
       THEN /\ InventoryCatch
            /\ UNCHANGED mutationAnswer
       ELSE /\ mutationAnswer' = Answer(outcome, changes)
            /\ invPc' = "json"
            /\ UNCHANGED <<errors, invResponse>>

\* app.inventory.tsx 194-201: await response.json() and the branch on the answer
InventoryJson(fault) ==
  /\ invPc = "json"
  /\ UNCHANGED <<loyaltyVars, pageVars, toastVars, debounceVars>>
  /\ UNCHANGED <<updates, validUpdates, mutationsSent, upstreamSet, mutationAnswer,
                 inventoryLog>>
  /\ IF fault
       THEN /\ UNCHANGED results
            /\ InventoryCatch
     ELSE IF mutationAnswer.kind = "userErrors"
       THEN /\ errors' = Append(errors, "userError")
            /\ UNCHANGED results
            /\ InventoryReturn
     ELSE IF mutationAnswer.kind = "inventoryAdjustmentGroup"
       THEN /\ results' = PushChanges(results, mutationAnswer.changes)
            /\ invPc' = "log"
            /\ UNCHANGED <<errors, invResponse>>
     ELSE /\ UNCHANGED <<results, errors>>
          /\ InventoryReturn

\* app.inventory.tsx 204-214: one prisma.inventoryLog.create of the loop (the
\* table starts empty, so the next update to log is at Len(inventoryLog) + 1)
InventoryLogCreate(fault) ==
  /\ invPc = "log"
  /\ UNCHANGED <<loyaltyVars, pageVars, toastVars, debounceVars>>
  /\ UNCHANGED <<updates, validUpdates, mutationsSent, upstreamSet, mutationAnswer,
                 results>>
  /\ IF fault
       THEN /\ InventoryCatch
            /\ UNCHANGED inventoryLog
       ELSE /\ inventoryLog' = Append(inventoryLog,
                                       LogRow(validUpdates[Len(inventoryLog) + 1]))
            /\ UNCHANGED errors
            /\ IF Len(inventoryLog') = Len(validUpdates)
                 THEN InventoryReturn
                 ELSE UNCHANGED <<invPc, invResponse>>

NextInventory ==
  \/ invPc = "idle" /\ \E form \in FormUpdates : InventoryReceive(form)
  \/ /\ invPc = "mutate"
     /\ \E outcome \in MutationOutcomes,
           changes \in PlatformChanges(QuantitiesOf(validUpdates)) :
          InventoryMutate(outcome, changes)
  \/ \E fault \in BOOLEAN : InventoryJson(fault)
  \/ \E fault \in BOOLEAN : InventoryLogCreate(fault)

InitInventory == LoyaltyAtRest /\ ScreenInit

SpecInventory == InitInventory /\ [][NextInventory]_vars

\* ------------------------------------------------ the inventory screen
\* Every event of the screen (a handler, a timer, an answer of the server)
\* changes state and so schedules a render; React renders before the next
\* event is handled.

\* the function debounce returns (part_000:556-566), called with args
DebouncedCall(args) ==
  /\ Len(calls) < MaxCalls
  /\ timers' = SetTimeout(IF timeout # NoTimer THEN ClearTimeout(timers, timeout)
                                                ELSE timers,
                          timersSet + 1, now, args)
  /\ timeout' = timersSet + 1
  /\ timersSet' = timersSet + 1
  /\ calls' = Append(calls, [time |-> now, args |-> args])
  /\ UNCHANGED <<now, invocations>>

\* handleSearchValueChange / handleClearSearch (part_000:333-339) with a new
\* value, and the effect the changed searchValue triggers (283-285).  A timer
\* runs no earlier than it is due and possibly later: the typing and the
\* passing of time do not wait for it.
HandleSearchValueChange(value) ==
  /\ ~needsRender
  /\ value # searchValue
  /\ searchValue' = value
  /\ DebouncedCall(value)
  /\ needsRender' = TRUE
  /\ UNCHANGED <<loyaltyVars, invVars, pageVars, toastState>>

\* const later = () => { timeout = null; func(...args); } (part_000:557-560),
\* where func is the search callback (269-278): setCursorStack([]) and the
\* GET submit of the search term, which replaces a pending load or submission
Later ==
  /\ ~needsRender
  /\ \E t \in {due \in timers : due.due <= now} :
       /\ timers' = timers \ {t}
       /\ invocations' = Append(invocations, [time |-> now, args |-> t.args])
       /\ navigation' = Loading(t.args, 0, 0)
  /\ timeout' = NoTimer
  /\ cursorStack' = <<>>
  /\ trail' = <<>>
  /\ onlyNext' = FALSE
  /\ expected' = NoPage
  /\ needsRender' = TRUE
  /\ UNCHANGED <<loyaltyVars, invVars, toastState>>
  /\ UNCHANGED <<catalogSize, page, location, searchValue, now, timersSet, calls>>

\* time passes
Tick ==
  /\ now < MaxTime
  /\ now' = now + 1
  /\ UNCHANGED <<loyaltyVars, invVars, pageVars, toastVars>>
  /\ UNCHANGED <<searchValue, timeout, timers, timersSet, calls, invocations>>

\* the loader (part_000:53-147) has answered the pending load: useLoaderData()
\* holds the page it was asked for and the address is the one loaded.  The
\* answer to a GET submit leaves no action result behind; the answer that
\* follows an action keeps it.
LoaderSettles ==
  /\ ~needsRender
  /\ navigation.state = "loading"
  /\ page' = Loader(catalogSize, navigation.cursor, navigation.before)
  /\ location' = [searchTerm |-> navigation.searchTerm, cursor |-> navigation.cursor,
                   before |-> navigation.before]
  /\ actionData' = IF navigation.formMethod = "POST" THEN actionData ELSE NoActionResult
  /\ navigation' = Idle
  /\ needsRender' = TRUE
  /\ expected' = NoPage
  /\ onlyNext' = \/ onlyNext
                 \/ cursorStack = <<>> /\ navigation.cursor = 0 /\ navigation.before = 0
  /\ UNCHANGED <<loyaltyVars, invVars, debounceVars>>
  /\ UNCHANGED <<catalogSize, cursorStack, trail>>
  /\ UNCHANGED <<showToast, toastMessage, toastError, inventoryChanges, dismissed>>

\* handleNextPage (part_000:342-353); Pagination is on the screen only when no
\* page loads and products.length > 0 (492-530), and the button is enabled by
\* hasNext (515-523)
HandleNextPage ==
  /\ ~needsRender
  /\ navigation.state # "loading"
  /\ EndCursor(page) # 0
  /\ HasNextPage(catalogSize, page)
  /\ IF EndCursor(page) # 0
       THEN /\ cursorStack' = Append(cursorStack, EndCursor(page))
            /\ trail' = Append(trail, page)
            /\ navigation' = Loading(searchValue, EndCursor(page), 0)
       ELSE /\ UNCHANGED <<cursorStack, trail>>
            /\ navigation' = Loading(searchValue, 0, 0)
  /\ needsRender' = TRUE
  /\ expected' = NoPage
  /\ UNCHANGED <<loyaltyVars, invVars, toastState, debounceVars>>
  /\ UNCHANGED <<catalogSize, page, location, onlyNext>>

\* handlePreviousPage (part_000:355-375); Pagination is on the screen only when
\* no page loads and products.length > 0 (492-530), and the button is enabled
\* by hasPrevious (515-523)
HandlePreviousPage ==
  /\ ~needsRender
  /\ navigation.state # "loading"
  /\ EndCursor(page) # 0
  /\ HasPrevious(cursorStack)
  /\ LET newStack == SubSeq(cursorStack, 1, Len(cursorStack) - 1)
     IN /\ cursorStack' = newStack
        /\ navigation' = Loading(searchValue, 0,
                                 IF Len(newStack) > 0 THEN newStack[Len(newStack)] ELSE 0)
  /\ needsRender' = TRUE
  /\ expected' = IF onlyNext THEN trail[Len(trail)] ELSE NoPage
  /\ trail' = SubSeq(trail, 1, Len(trail) - 1)
  /\ onlyNext' = FALSE
  /\ UNCHANGED <<loyaltyVars, invVars, toastState, debounceVars>>
  /\ UNCHANGED <<catalogSize, page, location>>

\* handleQuantityChange (part_000:294-302); the quantity fields are in the
\* table, which is not on the screen while a page loads (492-513)
HandleQuantityChange(variantId, newValue) ==
  /\ ~needsRender
  /\ navigation.state # "loading"
  /\ EndCursor(page) # 0
  /\ UNCHANGED <<loyaltyVars, invVars, pageVars, debounceVars>>
  /\ UNCHANGED <<actionData, showToast, toastMessage, toastError, dismissed>>
  /\ IF ValidQuantity(ParseInt(newValue))
       THEN /\ inventoryChanges' = SetChange(inventoryChanges, variantId,
                                             ParseInt(newValue))
            /\ needsRender' = TRUE
       ELSE UNCHANGED <<inventoryChanges, needsRender>>

\* handleSave (part_000:304-331): the "No changes to save" toast, or the POST
\* submit of the updates, which replaces a pending load.  The Save button is
\* disabled while a submission is under way or no change is pending (451-452).
HandleSave ==
  /\ ~needsRender
  /\ ~(navigation.state = "submitting" \/ KeysOf(inventoryChanges) = 0)
  /\ UNCHANGED <<loyaltyVars, invVars, debounceVars>>
  /\ UNCHANGED <<catalogSize, page, location, cursorStack, trail>>
  /\ needsRender' = TRUE
  /\ UNCHANGED <<actionData, inventoryChanges>>
  /\ IF KeysOf(inventoryChanges) = 0
       THEN /\ toastMessage' = NoChangesToSave
            /\ toastError' = TRUE
            /\ showToast' = TRUE
            /\ dismissed' = FALSE
            /\ UNCHANGED <<navigation, onlyNext, expected>>
       ELSE /\ navigation' = [state |-> "submitting", formMethod |-> "POST",
                               searchTerm |-> location.searchTerm,
                               cursor |-> location.cursor, before |-> location.before]
            /\ onlyNext' = (onlyNext /\ navigation.state # "loading")
            /\ expected' = NoPage
            /\ UNCHANGED <<showToast, toastMessage, toastError, dismissed>>

\* the action has answered the submission: useActionData() holds its result
\* while the loader is asked again for the page of the address
ActionSettles(success) ==
  /\ ~needsRender
  /\ navigation.state = "submitting"
  /\ actionData' = ActionResult(success)
  /\ navigation' = [navigation EXCEPT !.state = "loading"]
  /\ needsRender' = TRUE
  /\ dismissed' = FALSE
  /\ UNCHANGED <<loyaltyVars, invVars, debounceVars>>
  /\ UNCHANGED <<catalogSize, page, location, cursorStack, pageHistory>>
  /\ UNCHANGED <<showToast, toastMessage, toastError, inventoryChanges>>

\* the body of InventoryManager run by a render (part_000:377-397)
Render ==
  /\ needsRender
  /\ UNCHANGED <<loyaltyVars, invVars, pageVars, debounceVars>>
  /\ needsRender' = FALSE
  /\ UNCHANGED <<actionData, dismissed>>
  /\ IF ShowsToast(actionData, showToast)
       THEN /\ toastMessage' = IF actionData.success
                                 THEN UpdatedMessage(KeysOf(inventoryChanges))
                                 ELSE ErrorMessage
            /\ toastError' = ~actionData.success
            /\ showToast' = TRUE
            /\ inventoryChanges' = IF actionData.success THEN NoChanges
                                                         ELSE inventoryChanges
       ELSE UNCHANGED <<toastMessage, toastError, showToast, inventoryChanges>>

\* Toast onDismiss={() => setShowToast(false)} (part_000:540)
Dismiss ==
  /\ showToast /\ ~needsRender
  /\ UNCHANGED <<loyaltyVars, invVars, pageVars, debounceVars>>
  /\ showToast' = FALSE
  /\ needsRender' = TRUE
  /\ dismissed' = TRUE
  /\ UNCHANGED <<actionData, toastMessage, toastError, inventoryChanges>>

\* ------------------------------------------ inventory screen: pagination
\* catalogs of no, one, two and three pages; one quantity field and one
\* search, enough to replace a pending load of a page. A Save that replaces a
\* pending load leaves its cursor on cursorStack, so the stack can grow without
\* limit: Next is followed here while the stack is shorter than MaxDepth
NextPages ==
  \/ Len(cursorStack) < MaxDepth /\ HandleNextPage
  \/ HandlePreviousPage
  \/ Len(calls) < 2 /\ HandleSearchValueChange("a")
  \/ Later
  \/ now < Wait /\ Tick
  \/ LoaderSettles
  \/ HandleQuantityChange("v1", <<"7">>)
  \/ HandleSave
  \/ \E success \in BOOLEAN : ActionSettles(success)
  \/ Render
  \/ Dismiss

\* the screen after its first load, over a catalog that fills no page, a
\* part of a page, whole pages, or one product more than whole pages
InitPages ==
  /\ LoyaltyAtRest /\ InvInit /\ ToastInit /\ DebounceInit
  /\ \E size \in {0, 1} \cup {k * PageSize + d : k \in 1..(MaxPages - 1), d \in {0, 1}} :
        PageInit(size)

SpecPages == InitPages /\ [][NextPages]_vars

\* ----------------------------------------------- inventory screen: toast
\* a catalog of two pages, every quantity field, one search
NextToast ==
  \/ cursorStack = <<>> /\ HandleNextPage
  \/ HandlePreviousPage
  \/ Len(calls) < 2 /\ HandleSearchValueChange("a")
  \/ Later
  \/ now < Wait /\ Tick
  \/ LoaderSettles
  \/ \E variantId \in VariantIds, newValue \in QuantityFields :
        HandleQuantityChange(variantId, newValue)
  \/ HandleSave
  \/ \E success \in BOOLEAN : ActionSettles(success)
  \/ Render
  \/ Dismiss

SpecToast == InitInventory /\ [][NextToast]_vars

\* --------------------------------------------- inventory screen: search
\* a catalog of two pages, one quantity field, every search
NextDebounce ==
  \/ cursorStack = <<>> /\ HandleNextPage
  \/ HandlePreviousPage
  \/ \E value \in SearchValues : HandleSearchValueChange(value)
  \/ Later
  \/ Tick
  \/ LoaderSettles
  \/ HandleQuantityChange("v1", <<"7">>)
  \/ HandleSave
  \/ \E success \in BOOLEAN : ActionSettles(success)
  \/ Render
  \/ Dismiss

SpecDebounce == InitInventory /\ [][NextDebounce]_vars

\* ------------------------------------------------------ claim vocabulary
Finished == \A i \in Invocations : pc[i] \in {"idle", "done"}

\* no invocation other than i is in flight
Quiet(i) == \A j \in Invocations \ {i} : pc[j] \in {"idle", "done"}

\* invocation i has just taken the step that ends "idle" (it ran lines 1062-1086)
Received(i) == pc[i] = "idle" /\ pc'[i] # "idle"

IsAdded(r) == r.status = 200 /\ r.body = "Added points to customer"

\* the points of customer c in a ledger (0 with no row)
Balance(rows, c) == FindUnique(rows, c).points

\* number of rows a ledger holds for customer c
RowsOf(rows, c) == Cardinality({k \in 1..Len(rows) : rows[k].customerId = c})

\* invocations that were delivered an order with identifier o and passed the topic check
ForOrder(o) == {i \in Invocations : topic[i] = "orders/create" /\ order[i].parseable
                                      /\ order[i].id = o}

RECURSIVE SumWrites(_)
SumWrites(S) ==
  IF S = {} THEN 0
  ELSE LET i == CHOOSE x \in S : TRUE IN ledgerWrites[i] + SumWrites(S \ {i})

\* the award of order o reached the ledger this many times
AwardsApplied(o) == SumWrites(ForOrder(o))

\* an order that passes every early exit with a 1-point award
AwardOrder(o, c) ==
  [parseable |-> TRUE, id |-> o, customer |-> [present |-> TRUE, id |-> c],
   subtotal_price |-> Str(<<"1", "0", ".", "0", "0">>)]

\* invocation i was delivered such an order
AwardEvent(i, o, c) == topic[i] = "orders/create" /\ order[i] = AwardOrder(o, c)

\* ---------------------------------------------------------------- C1
\* C1 (at-most-once award): when every invocation was delivered the same
\* awarding order (points = 1, customer present) and all have returned
\* without a store failure, the store holds exactly one marker row for the
\* order and the customer's balance is the initial balance plus the points.
C1_AtMostOnceAward ==
  \A o \in OrderIds, c \in CustomerIds :
    ( /\ \A i \in Invocations : AwardEvent(i, o, c) /\ pc[i] = "done"
                                  /\ thrown[i] \in {"nothing", "duplicate"} )
    => /\ CopiesIn(EventKey(o), markers) = 1
       /\ Balance(ledger, c) = Balance(ledger0, c) + 1
       /\ AwardsApplied(o) = 1

\* ---------------------------------------------------------------- C2
\* C2 (idempotent no-op): once an invocation has returned "Added" for an
\* order, an invocation for the same order identifier whose marker lookup
\* returns ends with "Order already processed" (HTTP 200) and leaves the
\* ledger and the markers unchanged.
C2_IdempotentNoOp ==
  [][\A i \in Invocations :
       ( /\ pc[i] = "lookup" /\ pc'[i] # "lookup"
         /\ thrown'[i] = "nothing"
         /\ \E j \in Invocations \ {i} :
              pc[j] = "done" /\ IsAdded(response[j]) /\ order[j].id = order[i].id )
       => /\ pc'[i] = "done"
          /\ response'[i] = AlreadyProcessed
          /\ ledger' = ledger
          /\ markers' = markers]_vars

C2_Witness ==
  \E i, j \in Invocations :
    /\ i # j
    /\ pc[j] = "done" /\ IsAdded(response[j])
    /\ pc[i] = "done" /\ response[i] = AlreadyProcessed
    /\ order[i] = order[j]

\* ---------------------------------------------------------------- C3
\* C3: an invocation whose marker insert was rejected as a duplicate has
\* ended and has performed no ledger update or create.
C3_DuplicateNoLedgerWrite ==
  \A i \in Invocations :
    thrown[i] = "duplicate" => pc[i] = "done" /\ ledgerWrites[i] = 0

\* the race: i looked the marker up before j inserted it, and inserted after
C3_Witness ==
  \E i, j \in Invocations :
    /\ i # j
    /\ thrown[i] = "duplicate" /\ pc[i] = "done"
    /\ pc[j] = "done" /\ IsAdded(response[j])
    /\ order[i].id = order[j].id

\* ---------------------------------------------------------------- C4
\* C4: an invocation whose marker insert was rejected as a duplicate reports
\* the AlreadyProcessed outcome (HTTP 200), not HTTP 500.
C4_DuplicateReportedAsAlreadyProcessed ==
  \A i \in Invocations :
    thrown[i] = "duplicate" /\ pc[i] = "done" => response[i] = AlreadyProcessed

\* ---------------------------------------------------------------- C5
\* C5 (markProcessed enforces uniqueness): in every reachable state the
\* marker storage holds at most one row per eventKey.
C5_MarkerUnique ==
  \A o \in OrderIds : CopiesIn(EventKey(o), markers) <= 1

\* ---------------------------------------------------------------- C6
\* C6 (marker invariant): between invocations, a marker for an order means
\* the order's award has been applied to the ledger exactly once.
C6_MarkerMeansAwardedOnce ==
  Finished => \A o \in OrderIds :
                BagIn(EventKey(o), markers) => AwardsApplied(o) = 1

\* ---------------------------------------------------------------- C7
\* C7 (markers are stable): no step removes or changes a marker row; the
\* rows present before a step are present after it.
C7_MarkersStable ==
  [][\A o \in OrderIds :
       CopiesIn(EventKey(o), markers') >= CopiesIn(EventKey(o), markers)]_vars

\* a marker outlives an invocation that ended in the catch block
C7_Witness ==
  \E i \in Invocations :
    /\ pc[i] = "done" /\ response[i] = ErrorResponse /\ thrown[i] = "error"
    /\ BagIn(EventKey(order[i].id), markers)

\* ---------------------------------------------------------------- C8
\* C8 (unsupported topic): an event whose topic is not "orders/create" is
\* answered with HTTP 400 at once, whatever its body; markers and ledger are
\* unchanged.
C8_UnsupportedTopic ==
  [][\A i \in Invocations :
       Received(i) /\ topic'[i] # "orders/create"
       => /\ pc'[i] = "done"
          /\ response'[i] = TopicNotSupported
          /\ markers' = markers
          /\ ledger' = ledger]_vars

\* rejected with the body never read and the store untouched
C8_Witness ==
  \E i \in Invocations :
    /\ topic[i] = "orders/updated"
    /\ order[i] = NoOrder
    /\ pc[i] = "done" /\ response[i] = TopicNotSupported
    /\ ledger = ledger0 /\ markers = EmptyBag

\* ---------------------------------------------------------------- C9
\* C9 (missing customer): an orders/create event whose order has no customer,
\* or a customer without an id, is answered with HTTP 200 at once, whatever
\* the subtotal; no marker is inserted and no ledger row is created or updated.
C9_MissingCustomer ==
  [][\A i \in Invocations :
       ( /\ Received(i) /\ topic'[i] = "orders/create" /\ order'[i].parseable
         /\ (~order'[i].customer.present \/ order'[i].customer.id = Undefined) )
       => /\ pc'[i] = "done"
          /\ response'[i] = NoCustomerResponse
          /\ markers' = markers
          /\ ledger' = ledger]_vars

\* a customer object without an id, on an order that would have earned a point
C9_Witness ==
  \E i \in Invocations :
    /\ topic[i] = "orders/create" /\ order[i].parseable
    /\ order[i].customer = CustomerNoId
    /\ order[i].subtotal_price = Str(<<"1", "0", ".", "0", "0">>)
    /\ pc[i] = "done" /\ response[i] = NoCustomerResponse

\* ---------------------------------------------------------------- C10
\* C10 (below threshold): an orders/create event with a customer whose
\* computed points are <= 0 is answered with HTTP 200 at once and leaves
\* markers and ledger unchanged, on the first delivery and on every later one.
C10_BelowThreshold ==
  [][\A i \in Invocations :
       ( /\ Received(i) /\ topic'[i] = "orders/create" /\ order'[i].parseable
         /\ order'[i].customer.present /\ order'[i].customer.id # Undefined
         /\ ~points'[i].nan /\ points'[i].val <= 0 )
       => /\ pc'[i] = "done"
          /\ response'[i] = NoPointsResponse
          /\ markers' = markers
          /\ ledger' = ledger]_vars

\* subtotal "9.99" delivered repeatedly for the same order: never marked
C10_Witness ==
  /\ \A i \in Invocations :
       /\ topic[i] = "orders/create" /\ order[i].parseable
       /\ order[i].id = 1 /\ order[i].customer.id = "c1"
       /\ order[i].subtotal_price = Str(<<"9", ".", "9", "9">>)
       /\ points[i] = Num(0)
       /\ pc[i] = "done" /\ response[i] = NoPointsResponse
  /\ markers = EmptyBag /\ ledger = ledger0

\* ---------------------------------------------------------------- C11
\* the event of invocation i passes the topic and customer checks
Eligible(i) ==
  /\ topic[i] = "orders/create" /\ order[i].parseable
  /\ order[i].customer.present /\ order[i].customer.id # Undefined

\* C11 (award amount): a delivery of an order with a non-negative numeric
\* subtotal of c cents that ends without a store failure, and not as a
\* redelivery, awards exactly c \div 1000 points when that is >= 1 (response
\* "Added", balance raised by that amount) and nothing otherwise.
C11_AwardAmount ==
  \A i \in Invocations, c \in CentsSamples :
    ( /\ pc[i] = "done" /\ Eligible(i)
      /\ order[i].subtotal_price = Str(FormatCents(c))
      /\ thrown[i] = "nothing" /\ response[i] # AlreadyProcessed )
    => IF c \div 1000 >= 1
         THEN /\ response[i] = Added(c \div 1000)
              /\ Balance(ledger, order[i].customer.id)
                   = Balance(ledger0, order[i].customer.id) + c \div 1000
         ELSE /\ response[i] = NoPointsResponse
              /\ ledger = ledger0

\* "10.00" awards 1, "19.99" awards 1, "50.00" awards 5 (one of them reached)
C11_Witness ==
  \E i \in Invocations :
    /\ pc[i] = "done" /\ Eligible(i)
    /\ \/ order[i].subtotal_price = Str(<<"5", "0", ".", "0", "0">>) /\ response[i] = Added(5)
       \/ order[i].subtotal_price = Str(<<"1", "9", ".", "9", "9">>) /\ response[i] = Added(1)
    /\ Balance(ledger, order[i].customer.id)
         = Balance(ledger0, order[i].customer.id) + response[i].points

\* ---------------------------------------------------------------- C12
\* C12 (negative or non-numeric subtotal): an invocation delivered such an
\* order (topic supported, customer present) ends at once with the "No points
\* earned" no-op; it inserts no marker and writes no ledger row.
C12_NoAwardForBadSubtotal ==
  [][\A i \in Invocations :
       ( /\ pc'[i] # pc[i]
         /\ topic'[i] = "orders/create" /\ order'[i].parseable
         /\ order'[i].customer.present /\ order'[i].customer.id # Undefined
         /\ order'[i].subtotal_price \in NegativeSubtotals \cup NonNumericSubtotals )
       => /\ pc'[i] = "done"
          /\ response'[i] = NoPointsResponse
          /\ markers' = markers
          /\ ledger' = ledger]_vars

\* ---------------------------------------------------------------- C13
\* the rows of a ledger that do not belong to customer c
Others(rows, c) == SelectSeq(rows, LAMBDA r : r.customerId # c)

\* C13 (ledger upsert of a single invocation): the write that ends in "Added"
\* turns an existing entry of the customer into old points + award, or
\* creates exactly one entry with points = award; no other entry changes.
C13_LedgerUpsert ==
  [][\A i \in Invocations :
       ( pc[i] = "write" /\ pc'[i] = "done" /\ IsAdded(response'[i]) )
       => LET c == order[i].customer.id
              award == response'[i].points
          IN /\ award >= 1
             /\ RowsOf(ledger', c) = 1
             /\ Others(ledger', c) = Others(ledger, c)
             /\ IF RowsOf(ledger, c) = 1
                  THEN /\ Balance(ledger', c) = Balance(ledger, c) + award
                       /\ Len(ledger') = Len(ledger)
                  ELSE /\ Balance(ledger', c) = award
                       /\ Len(ledger') = Len(ledger) + 1]_vars

\* 5 + 3 = 8 for an existing entry, with the other customer's entry intact
C13_Witness ==
  \E i \in Invocations :
    /\ pc[i] = "done" /\ response[i] = Added(3)
    /\ order[i].customer.id = "c1"
    /\ ledger0 = <<Row("c1", 5), Row("c2", 7)>>
    /\ ledger = <<Row("c1", 8), Row("c2", 7)>>

\* ---------------------------------------------------------------- C14
\* C14 (order of the early exits): the first failing check among topic,
\* customer, points threshold decides the outcome, whatever the later checks
\* or the marker table would say, and the marker lookup is reached only when
\* all three pass.
C14_EarlyExitOrder ==
  [][\A i \in Invocations :
       Received(i) =>
         /\ topic'[i] # "orders/create" => response'[i] = TopicNotSupported
         /\ ( /\ topic'[i] = "orders/create" /\ order'[i].parseable
              /\ (~order'[i].customer.present \/ order'[i].customer.id = Undefined) )
            => response'[i] = NoCustomerResponse
         /\ ( /\ topic'[i] = "orders/create" /\ order'[i].parseable
              /\ order'[i].customer.present /\ order'[i].customer.id # Undefined
              /\ ~points'[i].nan /\ points'[i].val <= 0 )
            => response'[i] = NoPointsResponse
         /\ pc'[i] = "lookup"
            => /\ topic'[i] = "orders/create" /\ order'[i].parseable
               /\ order'[i].customer.present /\ order'[i].customer.id # Undefined
               /\ ~(~points'[i].nan /\ points'[i].val <= 0)
         /\ pc'[i] \in {"lookup", "done"}]_vars

\* a below-threshold order whose marker exists is BelowThreshold
C14_Witness ==
  \E i \in Invocations :
    /\ pc[i] = "done" /\ Eligible(i)
    /\ order[i].subtotal_price = Str(<<"9", ".", "9", "9">>)
    /\ BagIn(EventKey(order[i].id), markers)
    /\ response[i] = NoPointsResponse

\* ---------------------------------------------------------------- C15
Outcomes == {TopicNotSupported, NoCustomerResponse, NoPointsResponse,
             AlreadyProcessed, ErrorResponse} \cup {Added(p) : p \in 1..(MaxTens + 1)}

\* C15 (failure containment): whatever a store statement (or the body parse)
\* throws, the invocation ends in that very step with the HTTP 500 response;
\* every ended invocation has returned exactly one of the outcomes.
C15_FailureContained ==
  [][\A i \in Invocations :
       /\ thrown'[i] # thrown[i] => pc'[i] = "done" /\ response'[i] = ErrorResponse
       /\ pc'[i] = "done" => response'[i] \in Outcomes
       /\ pc[i] = "done" => response'[i] = response[i]]_vars

\* a throw of the ledger write, after marker and ledger read went through
C15_Witness ==
  \E i \in Invocations :
    /\ pc[i] = "done" /\ thrown[i] = "error" /\ response[i] = ErrorResponse
    /\ existingPoints[i].found
    /\ BagIn(EventKey(order[i].id), markers)

\* ---------------------------------------------------------------- C16
\* C16 (malformed input is a no-op): an orders/create event whose body cannot
\* be parsed is answered with a success no-op (HTTP 200).
C16_MalformedIsNoOp ==
  \A i \in Invocations :
    ( pc[i] = "done" /\ topic[i] = "orders/create" /\ order[i] = Unparseable )
    => response[i].status = 200

\* ---------------------------------------------------------------- C17
\* C17 (retry safety): a redelivery of an awarding event that arrives while
\* no other invocation is in flight, after every earlier delivery of the event
\* ended in a store failure and with the award not in the ledger, finds no
\* marker of the order in the store: nothing keeps it from applying the award.
C17_RetrySafe ==
  [][\A i \in Invocations, o \in OrderIds, c \in CustomerIds :
       ( /\ Received(i) /\ Quiet(i)
         /\ topic'[i] = "orders/create" /\ order'[i] = AwardOrder(o, c)
         /\ \E j \in Invocations \ {i} : pc[j] = "done" /\ AwardEvent(j, o, c)
         /\ \A j \in Invocations \ {i} :
              (pc[j] = "done" /\ AwardEvent(j, o, c)) => thrown[j] = "error"
         /\ AwardsApplied(o) = 0 )
       => ~BagIn(EventKey(o), markers')]_vars

\* ---------------------------------------------------------------- C18
\* C18 (ledger key uniqueness): the LoyaltyPoints table never holds two rows
\* for one customerId, however the webhook and the manual adjustments
\* interleave their reads and writes.
C18_OneRowPerCustomer ==
  \A c \in CustomerIds : RowsOf(ledger, c) <= 1

\* two first-time writes for a new customer: the manual adjustment created
\* the row after the webhook had read "no row", and the webhook's create failed
C18_Witness ==
  \E a \in Adjustments :
    /\ pc[1] = "done" /\ ~existingPoints[1].found
    /\ thrown[1] = "error" /\ ledgerWrites[1] = 0
    /\ adjPc[a] = "done" /\ adjResult[a].success /\ ~adjExistingPoints[a].found
    /\ adjCustomerId[a] = order[1].customer.id
    /\ RowsOf(ledger, adjCustomerId[a]) = 1
    /\ RowsOf(ledger0, adjCustomerId[a]) = 0

\* ---------------------------------------------------------------- C19
\* C19 (monotonic balance): while every manual adjustment submitted so far is
\* an "add", no step lowers any customer's points.
C19_MonotonicBalance ==
  [][(\A a \in Adjustments : adjPc'[a] # "idle" => adjOperation'[a] = "add")
     => \A c \in CustomerIds : Balance(ledger', c) >= Balance(ledger, c)]_vars

\* ---------------------------------------------------------------- C20
\* C20 (non-negative balance): every LoyaltyPoints row holds an integer >= 0.
C20_NonNegativeBalance ==
  \A k \in 1..Len(ledger) : ledger[k].points \in Nat

\* subtracting 7 from a balance of 5 leaves 0
C20_Witness ==
  \E a \in Adjustments :
    /\ adjPc[a] = "done" /\ adjResult[a] = Updated(0)
    /\ adjOperation[a] = "subtract" /\ adjPointsChange[a] = Num(7)
    /\ adjExistingPoints[a].found /\ adjExistingPoints[a].points \in {5, 6}
    /\ Balance(ledger, adjCustomerId[a]) = 0

\* ---------------------------------------------------------------- C21
\* C21 (marker before ledger): an invocation that is at its ledger read or
\* its ledger write, or that has written the ledger, has the marker of its
\* order in the store.
C21_MarkerBeforeLedger ==
  \A i \in Invocations :
    (pc[i] \in {"findUnique", "write"} \/ ledgerWrites[i] > 0)
    => BagIn(EventKey(order[i].id), markers)

\* an award is in the ledger and the marker of its order is in the store
C21_Witness ==
  \E i \in Invocations :
    /\ ledgerWrites[i] = 1 /\ pc[i] = "done" /\ IsAdded(response[i])
    /\ CopiesIn(EventKey(order[i].id), markers) = 1
    /\ Balance(ledger, order[i].customer.id)
         = Balance(ledger0, order[i].customer.id) + response[i].points

\* ---------------------------------------------------------------- C22
\* C22 (marker without award): a ledger read or write that fails after the
\* marker insert ends the invocation with HTTP 500, the marker stays and the
\* ledger is as it was; a later delivery of the same order whose marker
\* lookup returns is answered "Order already processed" and awards nothing.
C22_MarkerWithoutAward ==
  [][\A i \in Invocations :
       /\ ( pc[i] \in {"findUnique", "write"} /\ thrown'[i] # thrown[i] )
          => /\ pc'[i] = "done" /\ response'[i] = ErrorResponse
             /\ BagIn(EventKey(order[i].id), markers')
             /\ ledger' = ledger
       /\ ( /\ pc[i] = "lookup" /\ pc'[i] # "lookup" /\ thrown'[i] = "nothing"
            /\ \E j \in Invocations \ {i} :
                 /\ pc[j] = "done" /\ response[j] = ErrorResponse
                 /\ order[j].parseable /\ order[j].id = order[i].id
                 /\ BagIn(EventKey(order[j].id), markers) )
          => /\ pc'[i] = "done" /\ response'[i] = AlreadyProcessed
             /\ ledgerWrites'[i] = 0
             /\ ledger' = ledger]_vars

\* the ledger read passed, the write failed, and the redelivery was turned away:
\* the marker is there and the award is not
C22_Witness ==
  \E i, j \in Invocations :
    /\ i # j
    /\ pc[j] = "done" /\ response[j] = ErrorResponse /\ thrown[j] = "error"
    /\ AwardEvent(j, 1, "c1") /\ AwardEvent(i, 1, "c1")
    /\ pc[i] = "done" /\ response[i] = AlreadyProcessed
    /\ CopiesIn(EventKey(1), markers) = 1
    /\ ledger = ledger0 /\ AwardsApplied(1) = 0

\* ---------------------------------------------------------------- C23
\* invocations that answered "Added" for an order of customer c
Accepted(c) == {i \in Invocations : /\ pc[i] = "done" /\ IsAdded(response[i])
                                    /\ order[i].customer.id = c}

RECURSIVE SumAwards(_)
SumAwards(S) ==
  IF S = {} THEN 0
  ELSE LET i == CHOOSE x \in S : TRUE IN response[i].points + SumAwards(S \ {i})

\* C23 (no lost awards between different orders): when every invocation has
\* returned and those that answered "Added" for a customer were delivered
\* different orders, the customer's balance is the initial balance plus the
\* sum of the points they answered with.
C23_NoLostAwards ==
  \A c \in CustomerIds :
    ( /\ Finished
      /\ \A i, j \in Accepted(c) : i # j => order[i].id # order[j].id )
    => Balance(ledger, c) = Balance(ledger0, c) + SumAwards(Accepted(c))

\* ---------------------------------------------------------------- C24
\* C24 (failure means nothing changed): a manual adjustment that has
\* returned success:false has written nothing to the LoyaltyPoints table.
C24_FailureChangesNothing ==
  \A a \in Adjustments :
    ( adjPc[a] = "done" /\ ~adjResult[a].success ) => adjWrites[a] = 0

\* ---------------------------------------------------------------- C25
\* C25 (subtract never increases): the ledger write of a "subtract"
\* leaves the customer with max(0, previous - pointsChange) points, where the
\* previous points of a customer without a row are 0.
C25_SubtractNeverIncreases ==
  [][\A a \in Adjustments :
       ( /\ adjPc[a] = "write" /\ adjWrites'[a] > adjWrites[a]
         /\ adjOperation[a] = "subtract" )
       => LET previous == IF adjExistingPoints[a].found
                            THEN adjExistingPoints[a].points ELSE 0
              change == adjPointsChange[a].val
          IN Balance(ledger', adjCustomerId[a])
               = (IF previous - change > 0 THEN previous - change ELSE 0)]_vars

\* ---------------------------------------------------------------- C26
\* the rows the log loop writes for a list of valid updates
RowsFor(valid) == [k \in 1..Len(valid) |-> LogRow(valid[k])]

\* C26 (log matches applied changes): when the inventory action has
\* returned, the InventoryLog holds one row per qualifying update if the
\* mutation returned an adjustment group and no row otherwise, and a
\* success:false response means the upstream inventory was not changed.
C26_LogMatchesApplied ==
  invPc = "done" =>
    /\ upstreamSet # <<>> => inventoryLog = RowsFor(validUpdates)
    /\ upstreamSet = <<>> => inventoryLog = <<>>
    /\ ~invResponse.success => upstreamSet = <<>>

\* ---------------------------------------------------------------- C27
\* the submitted updates with an inventoryItemId and newQty # oldQty, in
\* order, as { inventoryItemId, quantity: newQty, compareQuantity: oldQty }
RECURSIVE RealChanges(_, _)
RealChanges(list, k) ==
  IF k > Len(list) THEN <<>>
  ELSE (IF list[k].inventoryItemId # "" /\ list[k].newQty # list[k].oldQty
          THEN << [inventoryItemId |-> list[k].inventoryItemId,
                   quantity |-> list[k].newQty,
                   compareQuantity |-> list[k].oldQty,
                   locationId |-> list[k].locationId] >>
          ELSE <<>>) \o RealChanges(list, k + 1)

\* C27 (only real changes are sent): an empty update list is answered
\* "No updates provided" with no mutation and no log row; otherwise the one
\* mutation sent carries exactly the real changes, and with no real change
\* no mutation is sent, no row is logged and the answer is success:true
\* with empty results.
C27_OnlyRealChanges ==
  invPc # "idle" =>
    IF updates.null \/ updates.list = <<>>
      THEN /\ invPc = "done" /\ invResponse = NoUpdatesProvided
           /\ mutationsSent = <<>> /\ inventoryLog = <<>>
    ELSE IF RealChanges(updates.list, 1) = <<>>
      THEN /\ invPc = "done"
           /\ invResponse = InventoryResponse(TRUE, "", <<>>, <<>>)
           /\ mutationsSent = <<>> /\ inventoryLog = <<>>
    ELSE /\ invPc = "mutate" => mutationsSent = <<>>
         /\ invPc \in {"json", "log", "done"}
              => mutationsSent = << RealChanges(updates.list, 1) >>

\* two updates submitted, one of them with an item but an unchanged quantity:
\* the mutation carried the other one alone
C27_Witness ==
  /\ invPc = "done" /\ invResponse.success
  /\ ~updates.null /\ Len(updates.list) = 2
  /\ \E k \in 1..2 : /\ updates.list[k].inventoryItemId # ""
                      /\ updates.list[k].newQty = updates.list[k].oldQty
  /\ Len(mutationsSent) = 1 /\ Len(mutationsSent[1]) = 1
  /\ mutationsSent[1][1].quantity = 1 /\ mutationsSent[1][1].compareQuantity = 0
  /\ Len(inventoryLog) = 1

\* ---------------------------------------------------------------- C28
\* C28 (pagination round trip): on page k reached by k-1 presses of Next,
\* the page that Previous asked for is, when its load is answered, the page
\* that was shown before the last Next; and whenever a page is shown and
\* nothing is pending, hasPrevious is true exactly when that page is not the
\* first page.
C28_PaginationRoundTrip ==
  [][/\ ( /\ navigation.state = "loading" /\ navigation'.state = "idle"
          /\ expected # NoPage )
        => page' = expected
     /\ navigation'.state = "idle"
          => (HasPrevious(cursorStack') <=> page' # FirstPage(catalogSize))]_vars

\* ---------------------------------------------------------------- C29
\* C29 (toast once per action): once the user has dismissed the toast and
\* the screen has rendered, the toast is hidden until a new result arrives.
C29_ToastOncePerAction ==
  (dismissed /\ ~needsRender) => ~showToast

\* ---------------------------------------------------------------- C30
\* the invocations of func that answer call c: not before Wait after it and
\* not after the next call
InvocationsOf(c) ==
  {k \in 1..Len(invocations) :
     /\ invocations[k].time >= calls[c].time + Wait
     /\ (c = Len(calls) \/ invocations[k].time <= calls[c + 1].time)}

\* calls that end a burst which a later call follows
ClosedBurstEnds ==
  {c \in 1..(Len(calls) - 1) : calls[c + 1].time - calls[c].time >= Wait}

\* C30, as stated: every burst of calls is answered by exactly one
\* invocation of func, with the arguments of the burst's last call.
C30_ExactlyOncePerBurst ==
  \A c \in ClosedBurstEnds :
    /\ Cardinality(InvocationsOf(c)) = 1
    /\ \A k \in InvocationsOf(c) : invocations[k].args = calls[c].args

\* C30, amended: at most one timer is pending; every invocation of func has
\* the arguments of the call that was the last one when it ran, and runs no
\* earlier than Wait after that call; no call is answered twice; and once no
\* timer is pending the last call has been answered exactly once.
C30_Debounce ==
  /\ Cardinality(timers) <= 1
  /\ \A k \in 1..Len(invocations) :
       \E c \in 1..Len(calls) : /\ k \in InvocationsOf(c)
                                /\ invocations[k].args = calls[c].args
  /\ \A c \in 1..Len(calls) : Cardinality(InvocationsOf(c)) <= 1
  /\ (calls # <<>> /\ timers = {}) => Cardinality(InvocationsOf(Len(calls))) = 1

\* a burst of three calls, each one tick after the other, answered once with
\* the arguments of the third
C30_Witness ==
  /\ Len(calls) = 3 /\ timers = {}
  /\ calls[2].time = calls[1].time + 1 /\ calls[3].time = calls[2].time + 1
  /\ calls[3].args # calls[2].args
  /\ Len(invocations) = 1
  /\ invocations[1].args = calls[3].args
  /\ invocations[1].time >= calls[3].time + Wait

====
